---- MODULE Spec2Model ----
(***************************************************************************)
(* A model of the career-matcher core of the repository: the skill match   *)
(* score (calculate_skill_match), the job filter (filter_jobs_by_skills)   *)
(* and the cached job search (search_jobs, generate_example_jobs) of       *)
(* src/job_scraper.py; the cache file shared by several processes; the     *)
(* saved-job store of src/user_skills.py and src/database.py; the filter   *)
(* pipeline and the static catalog of the specification; and the data      *)
(* store of src/api.py with clean_data and transform_data of               *)
(* src/data_processing.py. Each part has its own specification over the    *)
(* variables it uses.                                                      *)
(*                                                                         *)
(* A Python str is a sequence of one-character strings, so that lower(),   *)
(* strip(), split() and the substring test `in` are computed, not assumed. *)
(* A Python float is computed bit by bit (IEEE-754 double, round to        *)
(* nearest even) where the code divides and multiplies floats.             *)
(***************************************************************************)
EXTENDS Integers, Sequences, FiniteSets, TLC

VARIABLES
    \* calculate_skill_match: its two arguments and its return value
    job_skills, user_skills, match_result,
    \* filter_jobs_by_skills: its three arguments and its return value
    jobs, skills, min_match, filtered_jobs,
    \* search_jobs: the module's job_cache, the cache file, the clock, and
    \* what the last call was given and returned
    job_cache, cache_file, now, last_call, stored_by,
    \* search_jobs: the calls made, the clock's moves, and whether a call
    \* had use_cache=False
    calls, ticks, bypassed,
    \* user_skills: USE_DATABASE, whether the database enforces foreign
    \* keys, its tables users and saved_jobs, the files of data/users, and
    \* the number of ids generate_id has given
    use_database, foreign_keys, db_users, db_saved_jobs, user_files, next_id,
    \* user_skills: the last call with what it returned, the number of calls,
    \* the users create_user returned, the saves that returned an id and
    \* were not deleted since, and the (user, id) that delete_saved_job
    \* returned True for
    store_call, store_calls, known_users, live_saves, deleted_saves,
    \* processes sharing the cache file: the file, each process's job_cache,
    \* where each process is ("import" before load_job_cache, "import_failed"
    \* when it raised, "idle" between calls, "opened" inside save_job_cache
    \* between open and json.dump), the calls of search_jobs each made, and
    \* the process whose json.dump came last (0: none)
    shared_file, proc_cache, proc_pc, proc_calls, last_writer,
    \* filter_and_score and the static catalog: the job list, the reference
    \* skills, the filters, the jitter drawn for each listing, max_results,
    \* and the list returned
    cat_jobs, cat_reference, cat_filters, cat_jitters, cat_max, cat_result,
    \* objects: the lists and dicts of the process, each known by its
    \* reference (its place in `objects`); job_cache with the reference of
    \* each entry's list; the references of the lists the caller holds; the
    \* last call of filter_jobs_by_skills; and the number of calls made
    objects, cache_refs, known_lists, last_filter, object_calls,
    \* api.py: the DataFrame objects, data_store, the response to the last request, the requests
    \* answered so far, and their number
    frames, data_store, last_response, requests, api_calls,
    \* "call" before the function of the specification is called, "done" after;
    \* in SpecCache "idle" before the first call of search_jobs, "called" after
    pc

matchVars == <<job_skills, user_skills, match_result>>
filterVars == <<jobs, skills, min_match, filtered_jobs>>
cacheVars ==
    <<job_cache, cache_file, now, last_call, stored_by, calls, ticks, bypassed>>
storeVars ==
    <<use_database, foreign_keys, db_users, db_saved_jobs, user_files, next_id,
      store_call, store_calls, known_users, live_saves, deleted_saves>>
procVars == <<shared_file, proc_cache, proc_pc, proc_calls, last_writer>>
catalogVars ==
    <<cat_jobs, cat_reference, cat_filters, cat_jitters, cat_max, cat_result>>
objectVars == <<objects, cache_refs, known_lists, last_filter, object_calls>>
apiVars == <<frames, data_store, last_response, requests, api_calls>>
vars ==
    <<matchVars, filterVars, cacheVars, storeVars, procVars, catalogVars,
      objectVars, apiVars, pc>>

(***************************************************************************)
(* Python str operations                                                   *)
(***************************************************************************)
UpperChars == <<"A", "B", "C", "D", "E", "F", "G", "H", "I", "J", "K", "L", "M",
                "N", "O", "P", "Q", "R", "S", "T", "U", "V", "W", "X", "Y", "Z">>
LowerChars == <<"a", "b", "c", "d", "e", "f", "g", "h", "i", "j", "k", "l", "m",
                "n", "o", "p", "q", "r", "s", "t", "u", "v", "w", "x", "y", "z">>
Whitespace == {" ", "\t", "\n", "\r", "\f"}

SetMin(S) == CHOOSE x \in S : \A y \in S : x <= y
SetMax(S) == CHOOSE x \in S : \A y \in S : y <= x

lower_char(c) ==
    IF \E i \in DOMAIN UpperChars : UpperChars[i] = c
    THEN LowerChars[CHOOSE i \in DOMAIN UpperChars : UpperChars[i] = c]
    ELSE c

\* str.lower()
lower(s) == [i \in 1..Len(s) |-> lower_char(s[i])]

\* str.strip(): leading and trailing whitespace removed
strip(s) ==
    LET inked == {i \in 1..Len(s) : s[i] \notin Whitespace}
    IN  IF inked = {} THEN <<>> ELSE SubSeq(s, SetMin(inked), SetMax(inked))

\* `sub in s` on two strs
contains(sub, s) ==
    \E i \in 0..(Len(s) - Len(sub)) : SubSeq(s, i + 1, i + Len(sub)) = sub

\* str.split(sep) for a one-character separator: never an empty list
RECURSIVE split(_, _)
split(s, sep) ==
    LET at == {i \in 1..Len(s) : s[i] = sep}
    IN  IF at = {} THEN <<s>>
        ELSE <<SubSeq(s, 1, SetMin(at) - 1)>>
             \o split(SubSeq(s, SetMin(at) + 1, Len(s)), sep)

\* str.split(sep, 1): at most one cut
split_once(s, sep) ==
    LET at == {i \in 1..Len(s) : s[i] = sep}
    IN  IF at = {} THEN <<s>>
        ELSE <<SubSeq(s, 1, SetMin(at) - 1), SubSeq(s, SetMin(at) + 1, Len(s))>>

\* sep.join(parts)
RECURSIVE join(_, _)
join(sep, parts) ==
    IF parts = <<>> THEN <<>>
    ELSE IF Len(parts) = 1 THEN parts[1]
    ELSE parts[1] \o sep \o join(sep, Tail(parts))

(***************************************************************************)
(* Python float: round((m / n) * 100) for 0 <= m <= n, as IEEE-754 doubles *)
(* compute it. A significand is a sequence of limbs to the base 2^13, the  *)
(* most significant first (the first limb may exceed the base).            *)
(***************************************************************************)
LimbBase == 2^13

\* a \div d and a % d by long division, from limb i on with remainder r
RECURSIVE div_limbs(_, _, _, _)
div_limbs(a, d, i, r) ==
    IF i > Len(a) THEN [q |-> <<>>, r |-> r]
    ELSE LET cur == r * LimbBase + a[i]
             rest == div_limbs(a, d, i + 1, cur % d)
         IN  [q |-> <<cur \div d>> \o rest.q, r |-> rest.r]

\* a * k + carry, from limb i down
RECURSIVE mul_limbs(_, _, _, _)
mul_limbs(a, k, i, carry) ==
    IF i = 0 THEN (IF carry > 0 THEN <<carry>> ELSE <<>>)
    ELSE LET v == a[i] * k + carry
         IN  Append(mul_limbs(a, k, i - 1, v \div LimbBase), v % LimbBase)

RECURSIVE limbs_value(_)
limbs_value(a) ==
    IF a = <<>> THEN 0
    ELSE limbs_value(SubSeq(a, 1, Len(a) - 1)) * LimbBase + a[Len(a)]

\* q + rem / d rounded to the nearest integer, ties to the even one
nearest_even(q, twice_rem, d) ==
    IF twice_rem > d \/ (twice_rem = d /\ q[Len(q)] % 2 = 1)
    THEN mul_limbs(q, 1, Len(q), 1)
    ELSE q

\* the least z with n <= m * 2^z, so that 2^52 <= (m * 2^(52 + z)) / n < 2^53
RECURSIVE binary_shift(_, _, _)
binary_shift(m, n, z) ==
    IF m * 2^z >= n THEN z ELSE binary_shift(m, n, z + 1)

round_match_percentage(m, n) ==
    IF m = 0 THEN 0
    ELSE
    LET z == binary_shift(m, n, 0)
        \* m / n: the double quotient * 2^-(52 + z)
        division == div_limbs(<<m * 2^z, 0, 0, 0, 0>>, n, 1, 0)
        quotient == nearest_even(division.q, 2 * division.r, n)
        \* (m / n) * 100: the double product * 2^(drop - 52 - z); the exact
        \* product has 59 or 60 bits, of which a double keeps 53
        exact == mul_limbs(quotient, 100, Len(quotient), 0)
        drop == IF exact[1] >= 128 THEN 7 ELSE 6
        cut == div_limbs(exact, 2^drop, 1, 0)
        product == nearest_even(cut.q, 2 * cut.r, 2^drop)
        \* round(): product has frac bits after the binary point; split it
        \* one bit above that point
        frac == 52 + z - drop
        limbs_out == (frac - 1) \div 13
        bits_out == (frac - 1) % 13
        keep == IF Len(product) > limbs_out THEN Len(product) - limbs_out ELSE 0
        head == limbs_value(SubSeq(product, 1, keep))
        twice == head \div 2^bits_out
        rest == \/ head % 2^bits_out # 0
                \/ \E i \in (keep + 1)..Len(product) : product[i] # 0
        whole == twice \div 2
    IN  \* to the nearest integer, ties to the even one
        whole + (IF twice % 2 = 1 /\ (rest \/ whole % 2 = 1) THEN 1 ELSE 0)

(***************************************************************************)
(* calculate_skill_match                                                   *)
(***************************************************************************)
non_blank(skill) == strip(skill) # <<>>

\* A variant of lower_skills that forgets `if skill.strip()`: blank tokens stay,
\* as empty strs.
lower_skills_keep_blank(skill_list) ==
    [i \in 1..Len(skill_list) |-> strip(lower(skill_list[i]))]

\* [skill.lower().strip() for skill in skill_list if skill.strip()]
lower_skills(skill_list) ==
    LET kept == SelectSeq(skill_list, non_blank)
    IN  [i \in 1..Len(kept) |-> strip(lower(kept[i]))]

\* A variant of count_matches that counts the distinct matched skills (a set
\* intersection), so that a repeated skill counts once.
count_matches_distinct(job_lower, user_lower) ==
    Cardinality({user_lower[i] : i \in {k \in 1..Len(user_lower) :
        \E j \in 1..Len(job_lower) :
            \/ contains(job_lower[j], user_lower[k])
            \/ contains(user_lower[k], job_lower[j])}})

\* sum(1 for skill in user_skills_lower if any(job_skill in skill or skill in job_skill ...))
count_matches(job_lower, user_lower) ==
    Cardinality({i \in 1..Len(user_lower) :
        \E j \in 1..Len(job_lower) :
            \/ contains(job_lower[j], user_lower[i])
            \/ contains(user_lower[i], job_lower[j])})

py_min(a, b) == IF b < a THEN b ELSE a

\* A variant of calculate_skill_match that counts the matching (user skill,
\* job skill) pairs and forgets the cap.
calculate_skill_match_pairs(js, us) ==
    IF js = <<>> \/ us = <<>> THEN 0
    ELSE
    LET job_skills_lower == lower_skills(js)
        user_skills_lower == lower_skills(us)
        pairs == Cardinality({<<i, j>> \in
            (1..Len(user_skills_lower)) \X (1..Len(job_skills_lower)) :
                \/ contains(job_skills_lower[j], user_skills_lower[i])
                \/ contains(user_skills_lower[i], job_skills_lower[j])})
    IN  IF Len(user_skills_lower) > 0
        THEN (100 * pairs) \div Len(user_skills_lower)
        ELSE 0

calculate_skill_match(js, us) ==
    IF js = <<>> \/ us = <<>> THEN 0
    ELSE
    LET job_skills_lower == lower_skills(js)
        user_skills_lower == lower_skills(us)
        matches == count_matches(job_skills_lower, user_skills_lower)
        match_percentage ==
            IF Len(user_skills_lower) > 0
            THEN round_match_percentage(matches, Len(user_skills_lower))
            ELSE 0
    IN  py_min(match_percentage, 100)

(***************************************************************************)
(* filter_jobs_by_skills                                                   *)
(***************************************************************************)
Proficiency == <<"p", "r", "o", "f", "i", "c", "i", "e", "n", "c", "y">>
Experience == <<"e", "x", "p", "e", "r", "i", "e", "n", "c", "e">>
Knowledge == <<"k", "n", "o", "w", "l", "e", "d", "g", "e">>
\* (?:proficiency|experience|knowledge)
SkillKeywords == {Proficiency, Experience, Knowledge}
\* (?:in|with), tried in this order
Prepositions == <<(<<"i", "n">>), (<<"w", "i", "t", "h">>)>>
\* [^,\.]
CaptureStops == {",", "."}

\* whether `word` stands in s at position p
starts_with(s, p, word) ==
    /\ p + Len(word) - 1 <= Len(s)
    /\ SubSeq(s, p, p + Len(word) - 1) = word

\* \s+ is greedy: the length of the run of whitespace that starts at p
space_run(s, p) ==
    LET inked == {i \in p..Len(s) : s[i] \notin Whitespace}
    IN  IF inked = {} THEN Len(s) - p + 1 ELSE SetMin(inked) - p

\* ([^,\.]+) is greedy: the last position of the capture that starts at p
capture_end(s, p) ==
    LET stops == {i \in p..Len(s) : s[i] \in CaptureStops}
    IN  IF stops = {} THEN Len(s) ELSE SetMin(stops) - 1

NoMatch == [ok |-> FALSE, from |-> 0, to |-> 0]

\* The match of
\*   (?:proficiency|experience|knowledge)\s+(?:in|with)\s+([^,\.]+)
\* that starts at position p of s, with the bounds of its group.
pattern_match(s, p) ==
    LET found == {w \in SkillKeywords : starts_with(s, p, w)}
    IN  IF found = {} THEN NoMatch
        ELSE
        LET keyword == CHOOSE w \in found : TRUE
            gap1 == space_run(s, p + Len(keyword))
            at_prep == p + Len(keyword) + gap1
            preps == {i \in DOMAIN Prepositions :
                         starts_with(s, at_prep, Prepositions[i])}
        IN  IF gap1 = 0 \/ preps = {} THEN NoMatch
            ELSE
            LET after_prep == at_prep + Len(Prepositions[SetMin(preps)])
                gap2 == space_run(s, after_prep)
                first == after_prep + gap2
            IN  IF gap2 = 0 THEN NoMatch
                ELSE IF first <= Len(s) /\ s[first] \notin CaptureStops
                THEN [ok |-> TRUE, from |-> first, to |-> capture_end(s, first)]
                \* the second \s+ gives one whitespace back to the group
                ELSE IF gap2 >= 2
                THEN [ok |-> TRUE, from |-> first - 1, to |-> first - 1]
                ELSE NoMatch

\* re.findall(pattern, s): the groups of the matches, left to right, each
\* search resuming after the previous match
RECURSIVE findall(_, _)
findall(s, start) ==
    LET hits == {p \in start..Len(s) : pattern_match(s, p).ok}
    IN  IF hits = {} THEN <<>>
        ELSE LET hit == pattern_match(s, SetMin(hits))
             IN  <<SubSeq(s, hit.from, hit.to)>> \o findall(s, hit.to + 1)

\* the body of `for line in lines`: what one line adds to job_skills
line_skills(line) ==
    IF \A i \in 1..Len(line) : line[i] # "-" THEN <<>>
    ELSE
    LET skill_part == strip(split_once(line, "-")[2])
        skill_parts == findall(lower(skill_part), 1)
    IN  IF skill_parts # <<>> THEN skill_parts ELSE <<skill_part>>

RECURSIVE extend_all(_)
extend_all(lists) ==
    IF lists = <<>> THEN <<>> ELSE lists[1] \o extend_all(Tail(lists))

\* A job is a dict: a function from its keys. A requirements value is
\* [str |-> text] when it is a str and [list |-> items] when it is a list.
extract_job_skills(job) ==
    IF "requirements" \notin DOMAIN job THEN <<>>
    ELSE
    LET requirements == job["requirements"]
    IN  IF "str" \notin DOMAIN requirements THEN <<>>
        ELSE LET lines == split(requirements["str"], "\n")
             IN  extend_all([i \in 1..Len(lines) |-> line_skills(lines[i])])

\* [skill.strip() for skill in skills.split(',') if skill.strip()]
split_user_skills(skills_text) ==
    LET kept == SelectSeq(split(skills_text, ","), non_blank)
    IN  [i \in 1..Len(kept) |-> strip(kept[i])]

\* job_copy = job.copy(); job_copy['skills_match'] = match_percentage
with_skills_match(job, match_percentage) ==
    [k \in DOMAIN job \cup {"skills_match"} |->
        IF k = "skills_match" THEN match_percentage ELSE job[k]]

\* A variant of meets_min_match with > for >=.
meets_min_match_strict(match_percentage, threshold) ==
    match_percentage > threshold

\* A variant of meets_min_match that appends every job.
meets_min_match_always(match_percentage, threshold) == TRUE

\* if match_percentage >= min_match
meets_min_match(match_percentage, threshold) == match_percentage >= threshold

reversed(s) == [i \in 1..Len(s) |-> s[Len(s) + 1 - i]]

\* A stable ascending sort by skills_match: an element goes after those with
\* a smaller key and after the earlier ones with the same key.
sorted_by_match(s) ==
    LET rank(i) == 1 + Cardinality({j \in 1..Len(s) :
                \/ s[j]["skills_match"] < s[i]["skills_match"]
                \/ (s[j]["skills_match"] = s[i]["skills_match"] /\ j < i)})
    IN  [r \in 1..Len(s) |-> s[CHOOSE i \in 1..Len(s) : rank(i) = r]]

\* A variant of sort_descending that sorts ascending and reverses the result.
sort_descending_reversed(s) == reversed(sorted_by_match(s))

\* A variant of sort_descending that leaves the list as it is.
sort_descending_skipped(s) == s

\* list.sort(key=lambda j: j['skills_match'], reverse=True): the list is
\* reversed, sorted stably, and reversed again
sort_descending(s) == reversed(sorted_by_match(reversed(s)))

RECURSIVE select_jobs(_, _)
select_jobs(scored, threshold) ==
    IF scored = <<>> THEN <<>>
    ELSE (IF meets_min_match(scored[1]["skills_match"], threshold)
          THEN <<scored[1]>> ELSE <<>>)
         \o select_jobs(Tail(scored), threshold)

filter_jobs_by_skills(job_list, skills_text, threshold) ==
    LET wanted == split_user_skills(skills_text)
        scored == [i \in 1..Len(job_list) |->
            with_skills_match(job_list[i],
                calculate_skill_match(extract_job_skills(job_list[i]), wanted))]
    IN  sort_descending(select_jobs(scored, threshold))

(***************************************************************************)
(* generate_example_jobs and search_jobs                                   *)
(***************************************************************************)
\* 24 hours in seconds: the age below which search_jobs uses a cache entry
CacheLifetime == 86400

\* datetime.now().day: time.time() counts seconds from 1970-01-01, and the
\* clock of the model stays within January 1970 (UTC)
SecondsPerDay == 86400
day_of_month(t) == (t \div SecondsPerDay) + 1

Digits == <<"0", "1", "2", "3", "4", "5", "6", "7", "8", "9">>

\* str(n) for an int n >= 0, as an f-string formats it
RECURSIVE str_int(_)
str_int(n) ==
    IF n < 10 THEN <<Digits[n + 1]>>
    ELSE str_int(n \div 10) \o <<Digits[(n % 10) + 1]>>

\* strftime('%Y-%m-%d') of a day of January 1970
strftime(day) ==
    <<"1", "9", "7", "0", "-", "0", "1", "-">>
    \o <<Digits[(day \div 10) + 1], Digits[(day % 10) + 1]>>

upper_char(c) ==
    IF \E i \in DOMAIN LowerChars : LowerChars[i] = c
    THEN UpperChars[CHOOSE i \in DOMAIN LowerChars : LowerChars[i] = c]
    ELSE c

is_cased(c) ==
    \E i \in DOMAIN LowerChars : LowerChars[i] = c \/ UpperChars[i] = c

\* str.title(): a letter is upper-cased after a non-letter, lower-cased
\* after a letter
title(s) ==
    [i \in 1..Len(s) |->
        IF i > 1 /\ is_cased(s[i - 1]) THEN lower_char(s[i]) ELSE upper_char(s[i])]

\* str.replace(old, new) for one-character old and new
replace(s, old, new) == [i \in 1..Len(s) |-> IF s[i] = old THEN new ELSE s[i]]

\* search_key = f"{keywords}_{location}".lower().replace(' ', '_')
search_key(keywords, location) ==
    replace(lower(keywords \o <<"_">> \o location), " ", "_")

\* job_titles: what stands before and after primary_skill.title()
TitlePrefixes ==
    <<(<<>>),
      (<<"S", "e", "n", "i", "o", "r", " ">>),
      (<<>>),
      (<<>>),
      (<<"L", "e", "a", "d", " ">>),
      (<<>>),
      (<<>>),
      (<<"J", "u", "n", "i", "o", "r", " ">>),
      (<<>>),
      (<<>>)>>

TitleSuffixes ==
    <<(<<" ", "D", "e", "v", "e", "l", "o", "p", "e", "r">>),
      (<<" ", "E", "n", "g", "i", "n", "e", "e", "r">>),
      (<<" ", "A", "n", "a", "l", "y", "s", "t">>),
      (<<" ", "C", "o", "n", "s", "u", "l", "t", "a", "n", "t">>),
      (<<" ", "S", "p", "e", "c", "i", "a", "l", "i", "s", "t">>),
      (<<" ", "P", "r", "o", "j", "e", "c", "t", " ", "M", "a", "n", "a", "g",
          "e", "r">>),
      (<<" ", "A", "r", "c", "h", "i", "t", "e", "c", "t">>),
      (<<" ", "D", "e", "v", "e", "l", "o", "p", "e", "r">>),
      (<<" ", "D", "e", "s", "i", "g", "n", "e", "r">>),
      (<<" ", "S", "u", "p", "p", "o", "r", "t", " ", "S", "p", "e", "c", "i",
          "a", "l", "i", "s", "t">>)>>

job_titles(primary_skill) ==
    [k \in 1..10 |-> TitlePrefixes[k] \o title(primary_skill) \o TitleSuffixes[k]]

companies ==
    <<"TechCorp Inc.",
      "Innovative Solutions",
      "Global Systems",
      "NextGen Tech",
      "Future Software",
      "CodeMasters",
      "Digital Dynamics",
      "Tech Ventures",
      "ByteWorks",
      "DataSphere">>

salaries ==
    <<"$70,000 - $90,000",
      "$90,000 - $120,000",
      "$120,000 - $150,000",
      "$80,000 - $100,000",
      "$100,000 - $130,000",
      "Competitive",
      "$85,000 - $115,000",
      "$75,000 - $95,000",
      "$110,000 - $140,000",
      "DOE">>

\* locations = [location] * 5 + ["Remote", ...]
locations(location) ==
    [k \in 1..5 |-> location] \o
    <<(<<"R", "e", "m", "o", "t", "e">>),
      (<<"N", "e", "w", " ", "Y", "o", "r", "k", ",", " ", "N", "Y">>),
      (<<"S", "a", "n", " ", "F", "r", "a", "n", "c", "i", "s", "c", "o", ",",
          " ", "C", "A">>),
      (<<"A", "u", "s", "t", "i", "n", ",", " ", "T", "X">>),
      (<<"S", "e", "a", "t", "t", "l", "e", ",", " ", "W", "A">>)>>

ProficiencyLine == <<"-", " ", "P", "r", "o", "f", "i", "c", "i", "e", "n", "c", "y", " ",
      "i", "n", " ">>
ExperienceLine == <<"-", " ", "E", "x", "p", "e", "r", "i", "e", "n", "c", "e", " ", "w",
      "i", "t", "h", " ">>
YearsLine == <<" ", "y", "e", "a", "r", "s", " ", "o", "f", " ", "s", "o", "f", "t",
      "w", "a", "r", "e", " ", "d", "e", "v", "e", "l", "o", "p", "m", "e",
      "n", "t", " ", "e", "x", "p", "e", "r", "i", "e", "n", "c", "e",
      "\n">>
DegreeLine ==
    <<"-", " ", "B", "a", "c", "h", "e", "l", "o", "r", "'", "s", " ", "d",
      "e", "g", "r", "e", "e", " ", "i", "n", " ", "C", "o", "m", "p", "u",
      "t", "e", "r", " ", "S", "c", "i", "e", "n", "c", "e", " ", "o", "r",
      " ", "r", "e", "l", "a", "t", "e", "d", " ", "f", "i", "e", "l", "d",
      "\n">>
CommunicationLine == <<"-", " ", "S", "t", "r", "o", "n", "g", " ", "c", "o", "m", "m", "u",
      "n", "i", "c", "a", "t", "i", "o", "n", " ", "s", "k", "i", "l", "l",
      "s", "\n">>
SeekingText == <<"W", "e", " ", "a", "r", "e", " ", "s", "e", "e", "k", "i", "n", "g",
      " ", "a", " ", "t", "a", "l", "e", "n", "t", "e", "d", " ">>
JoinText ==
    <<" ", "t", "o", " ", "j", "o", "i", "n", " ", "o", "u", "r", " ", "t",
      "e", "a", "m", ".", " ", "Y", "o", "u", " ", "w", "i", "l", "l", " ",
      "b", "e", " ", "w", "o", "r", "k", "i", "n", "g", " ", "o", "n", " ",
      "c", "u", "t", "t", "i", "n", "g", "-", "e", "d", "g", "e", " ", "p",
      "r", "o", "j", "e", "c", "t", "s", " ", "u", "s", "i", "n", "g", " ">>
GrowText ==
    <<".", " ", "T", "h", "i", "s", " ", "i", "s", " ", "a", "n", " ", "e",
      "x", "c", "i", "t", "i", "n", "g", " ", "o", "p", "p", "o", "r", "t",
      "u", "n", "i", "t", "y", " ", "t", "o", " ", "g", "r", "o", "w", " ",
      "y", "o", "u", "r", " ", "c", "a", "r", "e", "e", "r", " ", "i", "n",
      " ", "a", " ", "d", "y", "n", "a", "m", "i", "c", " ", "e", "n", "v",
      "i", "r", "o", "n", "m", "e", "n", "t", ".">>
UrlText == <<"h", "t", "t", "p", "s", ":", "/", "/", "e", "x", "a", "m", "p", "l",
      "e", ".", "c", "o", "m", "/", "j", "o", "b", "s", "/">>

\* the stripped skills that are not blank, in order
RECURSIVE stripped_skills(_)
stripped_skills(skill_list) ==
    IF skill_list = <<>> THEN <<>>
    ELSE (IF non_blank(skill_list[1]) THEN <<strip(skill_list[1])>> ELSE <<>>)
         \o stripped_skills(Tail(skill_list))

RECURSIVE experience_lines(_)
experience_lines(stripped) ==
    IF stripped = <<>> THEN <<>>
    ELSE ExperienceLine \o stripped[1] \o <<"\n">> \o experience_lines(Tail(stripped))

\* datetime.now().replace(day=...) raises ValueError for a day below 1
replace_day_raises(t, i) == day_of_month(t) - (i % 14) < 1

\* the job built by iteration i of the loop, at time t; made_of holds what
\* the iterations share: job_titles, locations, the skills joined for the
\* description, the requirement lines of skills[1:], the score and the
\* end of the url
example_job(made_of, primary_skill, t, i) ==
    [id |-> <<"j", "o", "b", "_">> \o str_int(t) \o <<"_">> \o str_int(i),
     title |-> made_of.job_titles[(i % 10) + 1],
     company |-> companies[(i % 10) + 1],
     location |-> made_of.locations[(i % 10) + 1],
     salary |-> salaries[(i % 10) + 1],
     description |->
         SeekingText \o made_of.job_titles[(i % 10) + 1] \o JoinText
         \o made_of.joined \o GrowText,
     requirements |->
         [str |-> ProficiencyLine \o primary_skill \o <<"\n">>
                  \o made_of.experience
                  \o <<"-", " ">> \o str_int(3 + i) \o YearsLine
                  \o DegreeLine
                  \o CommunicationLine],
     date_posted |-> strftime(day_of_month(t) - (i % 14)),
     skills_match |-> made_of.skills_match,
     url |-> UrlText \o str_int(i) \o <<"_">> \o made_of.slug]

\* the loop of generate_example_jobs at time t: the list it builds, or the
\* ValueError it raises
example_jobs_loop(made_of, primary_skill, t, n) ==
    IF \E i \in 0..(n - 1) : replace_day_raises(t, i)
    THEN [raised |-> TRUE, jobs |-> <<>>]
    ELSE [raised |-> FALSE,
          jobs |-> [k \in 1..n |-> example_job(made_of, primary_skill, t, k - 1)]]

\* skills = keywords.split(','), and what follows
generate_from_skills(skill_list, primary_skill, location, count, t) ==
    example_jobs_loop(
        [job_titles |-> job_titles(primary_skill),
         locations |-> locations(location),
         joined |-> join(<<",", " ">>, stripped_skills(skill_list)),
         experience |-> experience_lines(stripped_skills(Tail(skill_list))),
         skills_match |-> calculate_skill_match(skill_list, skill_list),
         slug |-> replace(lower(primary_skill), " ", "_")],
        primary_skill, t, py_min(count, 10))

\* generate_example_jobs(keywords, location, count) called at time t
generate_example_jobs(keywords, location, count, t) ==
    generate_from_skills(split(keywords, ","), strip(split(keywords, ",")[1]),
                         location, count, t)

\* A cache entry is a dict; .get('timestamp', 0) and .get('jobs', [])
entry_timestamp(cache_entry) ==
    IF "timestamp" \in DOMAIN cache_entry THEN cache_entry["timestamp"] ELSE 0

entry_jobs(cache_entry) ==
    IF "jobs" \in DOMAIN cache_entry THEN cache_entry["jobs"] ELSE <<>>

\* A dict that forgets its other keys when one is assigned.
store_alone(mapping, key, value) == [k \in {key} |-> value]

\* mapping[key] = value on a dict
store(mapping, key, value) ==
    [k \in (DOMAIN mapping) \cup {key} |-> IF k = key THEN value ELSE mapping[k]]

\* An entry one second short of 24 hours old counts as stale.
cache_is_fresh_one_second_short(t, cache_time) == t - cache_time < CacheLifetime - 1

\* current_time - cache_time < 86400
cache_is_fresh(t, cache_time) == t - cache_time < CacheLifetime

\* search_jobs past the cache check: example_jobs is what
\* generate_example_jobs gave at time t. The call ends "raised", with the
\* exception of generate_example_jobs, or "stored", after the cache was
\* written.
search_jobs_miss(cache, key, example_jobs, t) ==
    IF example_jobs.raised
    THEN [outcome |-> "raised", returned |-> <<>>, cache |-> cache]
    ELSE [outcome |-> "stored", returned |-> example_jobs.jobs,
          cache |-> store(cache, key, [timestamp |-> t, jobs |-> example_jobs.jobs])]

\* search_jobs(keywords, location, max_results, use_cache) called at time t
\* with the module's job_cache being `cache`: how the call ends ("hit" is
\* the early return), what it returns and the job_cache it leaves.
search_jobs_at(cache, key, keywords, location, max_results, use_cache, t) ==
    IF /\ use_cache
       /\ key \in DOMAIN cache
       /\ cache_is_fresh(t, entry_timestamp(cache[key]))
    THEN [outcome |-> "hit", returned |-> entry_jobs(cache[key]), cache |-> cache]
    ELSE search_jobs_miss(cache, key,
             generate_example_jobs(keywords, location, max_results, t), t)

search_jobs(cache, keywords, location, max_results, use_cache, t) ==
    search_jobs_at(cache, search_key(keywords, location), keywords, location,
                   max_results, use_cache, t)

(***************************************************************************)
(* The cache file as load_job_cache and save_job_cache of several          *)
(* processes see it                                                        *)
(***************************************************************************)
\* the characters json.dump writes for a string: the quotes, and two
\* characters for a newline
newlines(text) == Cardinality({i \in 1..Len(text) : text[i] = "\n"})

json_string_length(text) == Len(text) + 2

\* the characters of a job: {"id": "...", ..., "skills_match": 100, "url": "..."}
json_job_length(job) ==
    2 + (4 + 2 + json_string_length(job.id))
      + 2 + (7 + 2 + json_string_length(job.title))
      + 2 + (9 + 2 + json_string_length(job.company))
      + 2 + (10 + 2 + json_string_length(job.location))
      + 2 + (8 + 2 + json_string_length(job.salary))
      + 2 + (13 + 2 + json_string_length(job.description))
      + 2 + (14 + 2 + json_string_length(job.requirements.str)
                    + newlines(job.requirements.str))
      + 2 + (13 + 2 + json_string_length(job.date_posted))
      + 2 + (14 + 2 + Len(str_int(job.skills_match)))
      + 2 + (5 + 2 + json_string_length(job.url))

\* the characters of a list of jobs: [job, job]
RECURSIVE json_jobs_sum(_, _)
json_jobs_sum(job_list, n) ==
    IF n = 0 THEN 0 ELSE json_job_length(job_list[n]) + json_jobs_sum(job_list, n - 1)

json_jobs_length(job_list) ==
    2 + json_jobs_sum(job_list, Len(job_list))
      + (IF Len(job_list) > 1 THEN 2 * (Len(job_list) - 1) ELSE 0)

\* the characters of a cache entry: {"timestamp": 777600.0, "jobs": [...]}
json_entry_length(cache_entry) ==
    2 + (IF "timestamp" \in DOMAIN cache_entry
         THEN 11 + 2 + Len(str_int(cache_entry["timestamp"])) + 2 + 2
         ELSE 0)
      + (6 + 2 + json_jobs_length(entry_jobs(cache_entry)))

\* the characters json.dump(job_cache, f) writes
RECURSIVE json_entries_sum(_, _)
json_entries_sum(document, keys) ==
    IF keys = {} THEN 0
    ELSE json_string_length(CHOOSE k \in keys : TRUE) + 2
         + json_entry_length(document[CHOOSE k \in keys : TRUE])
         + json_entries_sum(document, keys \ {CHOOSE k \in keys : TRUE})

json_length(document) ==
    2 + json_entries_sum(document, DOMAIN document)
      + (IF Cardinality(DOMAIN document) > 1
         THEN 2 * (Cardinality(DOMAIN document) - 1) ELSE 0)

\* The file is [exists, readable, valid, document, length]: whether
\* open(JOB_CACHE_FILE, 'r') finds it and may read it, whether its text is
\* the JSON of `document`, and the number of its characters.
missing_file ==
    [exists |-> FALSE, readable |-> FALSE, valid |-> FALSE,
     document |-> <<>>, length |-> 0]

unreadable_file ==
    [exists |-> TRUE, readable |-> FALSE, valid |-> FALSE,
     document |-> <<>>, length |-> 1]

\* a file whose text is not JSON
invalid_file ==
    [exists |-> TRUE, readable |-> TRUE, valid |-> FALSE,
     document |-> <<>>, length |-> 1]

file_of(document) ==
    [exists |-> TRUE, readable |-> TRUE, valid |-> TRUE,
     document |-> document, length |-> json_length(document)]

\* open(JOB_CACHE_FILE, 'w'): the file exists and is empty
opened_for_writing ==
    [exists |-> TRUE, readable |-> TRUE, valid |-> FALSE,
     document |-> <<>>, length |-> 0]

\* json.dump(job_cache, f) and the close of a file opened with 'w': the
\* text is written from the start of the file, and what another process
\* wrote beyond its end since the open stays
written(file_before, document, text_length) ==
    IF text_length >= file_before.length
    THEN file_of(document)
    ELSE [exists |-> TRUE, readable |-> TRUE, valid |-> FALSE,
          document |-> document, length |-> file_before.length]

\* load_job_cache() up to the open(.., 'w') of save_job_cache: "raised"
\* when an exception other than FileNotFoundError leaves the function
load_job_cache(file_before) ==
    IF ~file_before.exists
    THEN [outcome |-> "created", cache |-> <<>>, file |-> opened_for_writing]
    ELSE IF ~file_before.readable \/ ~file_before.valid
    THEN [outcome |-> "raised", cache |-> <<>>, file |-> file_before]
    ELSE [outcome |-> "loaded", cache |-> file_before.document, file |-> file_before]


(***************************************************************************)
(* The filter pipeline and the static-catalog provider, which are not in   *)
(* job_scraper.py: they are written here from sections 4.2 and 4.3 of the  *)
(* specification                                                           *)
(***************************************************************************)
AllLevels == <<"A", "l", "l", " ", "L", "e", "v", "e", "l", "s">>
EntryLevel == <<"E", "n", "t", "r", "y", " ", "L", "e", "v", "e", "l">>
MidLevel == <<"M", "i", "d", " ", "L", "e", "v", "e", "l">>
SeniorLevel == <<"S", "e", "n", "i", "o", "r", " ", "L", "e", "v", "e", "l">>
AllIndustries == <<"A", "l", "l", " ", "I", "n", "d", "u", "s", "t", "r", "i", "e", "s">>

\* a missing field degrades to the empty string
job_field(job, key) == IF key \in DOMAIN job THEN job[key] ELSE <<>>

\* A variant of location_passes that compares the texts as they are.
location_passes_case_sensitive(job, filter_set) ==
    "location" \in DOMAIN filter_set =>
        contains(filter_set["location"], job_field(job, "location"))

\* Location filter: case-insensitive substring match against the job's
\* location field; an absent filter passes all
location_passes(job, filter_set) ==
    "location" \in DOMAIN filter_set =>
        contains(lower(filter_set["location"]), lower(job_field(job, "location")))

\* Industry filter: exact case-insensitive match; "All Industries" is a
\* wildcard
industry_passes(job, filter_set) ==
    ("industry" \in DOMAIN filter_set /\ filter_set["industry"] # AllIndustries) =>
        lower(filter_set["industry"]) = lower(job_field(job, "industry"))

\* A variant of experience_markers whose senior bucket ends at "6-".
experience_markers_to_six(level) ==
    IF level = EntryLevel THEN {<<"0", "-">>, <<"1", "-">>}
    ELSE IF level = MidLevel THEN {<<"3", "-">>, <<"4", "-">>}
    ELSE IF level = SeniorLevel THEN {<<"5", "-">>, <<"6", "-">>}
    ELSE {}

\* the substrings of a level bucket
experience_markers(level) ==
    IF level = EntryLevel THEN {<<"0", "-">>, <<"1", "-">>}
    ELSE IF level = MidLevel THEN {<<"3", "-">>, <<"4", "-">>}
    ELSE IF level = SeniorLevel THEN {<<"5", "-">>, <<"6", "-">>, <<"7", "-">>}
    ELSE {}

\* Experience filter: the experience string contains one of the substrings
\* of the level's bucket; "All Levels" is a wildcard
experience_passes(job, filter_set) ==
    ("experience" \in DOMAIN filter_set /\ filter_set["experience"] # AllLevels) =>
        \E marker \in experience_markers(filter_set["experience"]) :
            contains(marker, job_field(job, "experience"))

passes_filters(job, filter_set) ==
    /\ location_passes(job, filter_set)
    /\ industry_passes(job, filter_set)
    /\ experience_passes(job, filter_set)

\* the jobs that pass every supplied filter, in their order
RECURSIVE surviving_jobs(_, _)
surviving_jobs(job_list, filter_set) ==
    IF job_list = <<>> THEN <<>>
    ELSE (IF passes_filters(job_list[1], filter_set) THEN <<job_list[1]>> ELSE <<>>)
         \o surviving_jobs(Tail(job_list), filter_set)

\* min_match of the filters (default 0)
filter_min_match(filter_set) ==
    IF "min_match" \in DOMAIN filter_set THEN filter_set["min_match"] ELSE 0

\* the surviving jobs with skills_match recomputed by the SkillMatcher
rescored(survivors, reference) ==
    [i \in 1..Len(survivors) |->
        with_skills_match(survivors[i],
            calculate_skill_match(job_field(survivors[i], "skills"), reference))]

\* filter_and_score(jobs, reference_skills, filters): filter, score, drop
\* the jobs below min_match, stable sort by skills_match descending
filter_and_score(job_list, reference, filter_set) ==
    sort_descending(
        select_jobs(rescored(surviving_jobs(job_list, filter_set), reference),
                    filter_min_match(filter_set)))

\* A score is [num, den], the fraction num / den. For a listing:
\* matched / total * 100 against its skills_required
\* the skills trimmed and in lower case
cleaned_skills(skill_list) ==
    [i \in 1..Len(skill_list) |-> lower(strip(skill_list[i]))]

\* the number of required skills that are reference skills, both cleaned
matched_required(required, reference) ==
    Cardinality({i \in 1..Len(required) :
        \E j \in 1..Len(reference) : reference[j] = required[i]})

\* the base score of a listing against the cleaned reference skills
base_score(listing, reference) ==
    IF job_field(listing, "skills_required") = <<>>
    THEN [num |-> 0, den |-> 1]
    ELSE [num |-> 100 * matched_required(
                            cleaned_skills(listing["skills_required"]), reference),
          den |-> Len(listing["skills_required"])]

\* A variant of clamped with the ceiling only.
clamped_without_floor(score) ==
    IF score.num > 99 * score.den THEN [num |-> 99 * score.den, den |-> score.den]
    ELSE score

\* the score clamped to [60, 99]
clamped(score) ==
    IF score.num < 60 * score.den THEN [num |-> 60 * score.den, den |-> score.den]
    ELSE IF score.num > 99 * score.den THEN [num |-> 99 * score.den, den |-> score.den]
    ELSE score

\* the score moved by the jitter
shifted(score, jitter) ==
    [num |-> score.num + jitter * score.den, den |-> score.den]

\* base score plus jitter, clamped
jittered_score(listing, reference, jitter) ==
    clamped(shifted(base_score(listing, reference), jitter))

\* score >= threshold for a fraction and an integer
score_at_least(score, threshold) == score.num >= threshold * score.den

\* a stable descending sort of scored listings: the place of listing i
catalog_rank(scored, i) ==
    1 + Cardinality({j \in 1..Len(scored) :
            \/ scored[j].score.num * scored[i].score.den
                   > scored[i].score.num * scored[j].score.den
            \/ (scored[j].score.num * scored[i].score.den
                    = scored[i].score.num * scored[j].score.den /\ j < i)})

catalog_sorted(scored) ==
    [r \in 1..Len(scored) |->
        scored[CHOOSE i \in 1..Len(scored) : catalog_rank(scored, i) = r]]

RECURSIVE catalog_kept(_, _)
catalog_kept(scored, threshold) ==
    IF scored = <<>> THEN <<>>
    ELSE (IF score_at_least(scored[1].score, threshold) THEN <<scored[1]>> ELSE <<>>)
         \o catalog_kept(Tail(scored), threshold)

\* the static-catalog variant of get_jobs: every listing is scored with its
\* jitter, the filters are applied, and the top max_results (at most 10) by
\* descending score are retained
top_listings(passing, max_results) ==
    SubSeq(catalog_sorted(passing), 1, py_min(Len(passing), py_min(max_results, 10)))

passing_listings(scored, filter_set) ==
    catalog_kept(SelectSeq(scored, LAMBDA s : passes_filters(s.listing, filter_set)),
                 filter_min_match(filter_set))

\* the listings with their scores against the cleaned reference skills
scored_listings(listings, reference, jitter_of) ==
    [i \in 1..Len(listings) |->
        [listing |-> listings[i],
         score |-> jittered_score(listings[i], reference, jitter_of[i])]]

static_catalog_jobs(listings, reference, jitter_of, filter_set, max_results) ==
    top_listings(
        passing_listings(
            scored_listings(listings, cleaned_skills(reference), jitter_of),
            filter_set),
        max_results)

(***************************************************************************)
(* The saved-job store of user_skills.py: a relational store (database.py) *)
(* tried first, files under data/users as the fallback                      *)
(***************************************************************************)
\* utils.generate_id(): the n-th id it gives, an opaque value no other call
\* gives
generate_id(n) == <<"id", n>>

\* the rows of a table that a test keeps, in the table's order
RECURSIVE rows_of_user(_, _)
rows_of_user(rows, user_id) ==
    IF rows = <<>> THEN <<>>
    ELSE (IF rows[1].user_id = user_id THEN <<rows[1]>> ELSE <<>>)
         \o rows_of_user(Tail(rows), user_id)

\* job_dict of database.get_user_data for a SavedJob row
job_dict(row) ==
    [saved_job_id |-> row.id, job |-> row.job_data,
     match_percentage |-> row.match_percentage, notes |-> row.notes]

\* database.get_user_data(user_id): None, or the user's dict with the
\* saved jobs of the relationship user.saved_jobs
get_user_data(users, saved_rows, user_id) ==
    IF user_id \notin DOMAIN users
    THEN [found |-> FALSE, saved_jobs |-> <<>>]
    ELSE [found |-> TRUE,
          email |-> users[user_id].email,
          saved_jobs |-> [i \in 1..Len(rows_of_user(saved_rows, user_id)) |->
                             job_dict(rows_of_user(saved_rows, user_id)[i])]]

\* the file-based part of get_user_by_id: None when the file does not exist
read_user_file(files, user_id) ==
    IF user_id \notin DOMAIN files
    THEN [found |-> FALSE, saved_jobs |-> <<>>]
    ELSE [found |-> TRUE, email |-> files[user_id].email,
          saved_jobs |-> files[user_id].saved_jobs]

\* get_user_by_id(user_id): the database when it answers, the file when
\* the database raises or is not used
get_user_by_id(reached, users, saved_rows, files, user_id) ==
    IF reached THEN get_user_data(users, saved_rows, user_id)
    ELSE read_user_file(files, user_id)

\* [job for job in saved_jobs if job.get("saved_job_id") != saved_job_id]
RECURSIVE without_saved_job(_, _)
without_saved_job(saved_jobs, saved_job_id) ==
    IF saved_jobs = <<>> THEN <<>>
    ELSE (IF saved_jobs[1].saved_job_id # saved_job_id
          THEN <<saved_jobs[1]>> ELSE <<>>)
         \o without_saved_job(Tail(saved_jobs), saved_job_id)

\* session.delete of the row with this id and user_id
RECURSIVE without_row(_, _, _)
without_row(rows, saved_job_id, user_id) ==
    IF rows = <<>> THEN <<>>
    ELSE (IF rows[1].id = saved_job_id /\ rows[1].user_id = user_id
          THEN <<>> ELSE <<rows[1]>>)
         \o without_row(Tail(rows), saved_job_id, user_id)

\* session.query(SavedJob).filter_by(id=..., user_id=...).first() is a row
has_row(rows, saved_job_id, user_id) ==
    \E i \in 1..Len(rows) :
        rows[i].id = saved_job_id /\ rows[i].user_id = user_id

\* session.query(User).filter_by(email=email).first() is a user
users_with_email(users, email) == {u \in DOMAIN users : users[u].email = email}

\* The store is [users, saved_jobs, files, next]: the two tables, the files
\* of data/users and the number of the next id of generate_id. `reached`
\* says that USE_DATABASE holds and the database answers during the call;
\* otherwise the try block ends in `except Exception` and the file-based
\* code runs. An operation gives the store it leaves and what it returns.

\* create_user(name, email, skills)
create_user(store_before, reached, email) ==
    IF reached /\ users_with_email(store_before.users, email) # {}
    THEN [store |-> store_before,
          result |-> [kind |-> "id",
                      value |-> CHOOSE u \in users_with_email(store_before.users, email) : TRUE]]
    ELSE IF reached
    THEN [store |-> [store_before EXCEPT
                        !.users = store(@, generate_id(store_before.next),
                                        [email |-> email]),
                        !.next = @ + 1],
          result |-> [kind |-> "id", value |-> generate_id(store_before.next)]]
    ELSE [store |-> [store_before EXCEPT
                        !.files = store(@, generate_id(store_before.next),
                                        [email |-> email, saved_jobs |-> <<>>]),
                        !.next = @ + 1],
          result |-> [kind |-> "id", value |-> generate_id(store_before.next)]]

\* the file-based end of save_job_for_user, user_data being what
\* get_user_by_id returned
save_job_to_file(store_before, user_data, user_id, job_data, match_percentage) ==
    IF ~user_data.found
    THEN [store |-> store_before, result |-> [kind |-> "bool", value |-> FALSE]]
    ELSE [store |-> [store_before EXCEPT
                        !.files = store(@, user_id,
                            [email |-> user_data.email,
                             saved_jobs |-> Append(user_data.saved_jobs,
                                 [saved_job_id |-> generate_id(store_before.next),
                                  job |-> job_data,
                                  match_percentage |-> match_percentage,
                                  notes |-> ""])]),
                        !.next = @ + 1],
          result |-> [kind |-> "id", value |-> generate_id(store_before.next)]]

\* save_job_for_user(user_id, job_data, match_percentage): with foreign
\* keys enforced, the commit of a row for an unknown user raises
save_job_for_user(store_before, reached, enforced, user_id, job_data, match_percentage) ==
    IF reached /\ ~(enforced /\ user_id \notin DOMAIN store_before.users)
    THEN [store |-> [store_before EXCEPT
                        !.saved_jobs = Append(@,
                            [id |-> generate_id(store_before.next),
                             user_id |-> user_id, job_data |-> job_data,
                             match_percentage |-> match_percentage,
                             notes |-> ""]),
                        !.next = @ + 1],
          result |-> [kind |-> "id", value |-> generate_id(store_before.next)]]
    ELSE IF reached
    THEN save_job_to_file([store_before EXCEPT !.next = @ + 1],
             get_user_by_id(reached, store_before.users, store_before.saved_jobs,
                            store_before.files, user_id),
             user_id, job_data, match_percentage)
    ELSE save_job_to_file(store_before,
             get_user_by_id(reached, store_before.users, store_before.saved_jobs,
                            store_before.files, user_id),
             user_id, job_data, match_percentage)

\* get_saved_jobs(user_id)
get_saved_jobs(store_before, reached, user_id) ==
    [store |-> store_before,
     result |-> [kind |-> "list",
                 value |-> get_user_by_id(reached, store_before.users,
                               store_before.saved_jobs, store_before.files,
                               user_id).saved_jobs]]

\* the file-based end of delete_saved_job
delete_saved_job_in_file(store_before, user_data, user_id, saved_job_id) ==
    IF \/ ~user_data.found
       \/ Len(without_saved_job(user_data.saved_jobs, saved_job_id))
              = Len(user_data.saved_jobs)
    THEN [store |-> store_before, result |-> [kind |-> "bool", value |-> FALSE]]
    ELSE [store |-> [store_before EXCEPT
                        !.files = store(@, user_id,
                            [email |-> user_data.email,
                             saved_jobs |-> without_saved_job(user_data.saved_jobs,
                                                              saved_job_id)])],
          result |-> [kind |-> "bool", value |-> TRUE]]

\* delete_saved_job(user_id, saved_job_id)
delete_saved_job(store_before, reached, user_id, saved_job_id) ==
    IF reached /\ has_row(store_before.saved_jobs, saved_job_id, user_id)
    THEN [store |-> [store_before EXCEPT
                        !.saved_jobs = without_row(@, saved_job_id, user_id)],
          result |-> [kind |-> "bool", value |-> TRUE]]
    ELSE IF reached
    THEN [store |-> store_before, result |-> [kind |-> "bool", value |-> FALSE]]
    ELSE delete_saved_job_in_file(store_before,
             get_user_by_id(FALSE, store_before.users, store_before.saved_jobs,
                            store_before.files, user_id),
             user_id, saved_job_id)

(***************************************************************************)
(* Lists and dicts as objects. search_jobs returns the list object that    *)
(* its cache entry holds, and filter_jobs_by_skills works on the dicts of  *)
(* the list it is given: `objects` is the sequence of the objects made so  *)
(* far, a reference is a place in it, a list object is [list |-> the       *)
(* references of its items] and a dict object is the dict.                 *)
(***************************************************************************)
\* a new object: its reference and the objects with it
allocate(objs, value) == [ref |-> Len(objs) + 1, objects |-> Append(objs, value)]

\* A copy that is the dict itself.
job_copy_same_object(objs, job_ref) == [ref |-> job_ref, objects |-> objs]

\* job_copy = job.copy(): a new dict with the keys and values of job
job_copy(objs, job_ref) == allocate(objs, objs[job_ref])

\* job_copy['skills_match'] = match_percentage, and the append to
\* filtered_jobs when the match is at least min_match
after_job(copied, kept, match_percentage, threshold) ==
    [objects |-> [copied.objects EXCEPT
                      ![copied.ref] = with_skills_match(@, match_percentage)],
     kept |-> IF meets_min_match(match_percentage, threshold)
              THEN Append(kept, copied.ref) ELSE kept]

\* `for job in jobs:` from job i on; so_far holds the objects and the
\* references appended to filtered_jobs
RECURSIVE filter_loop(_, _, _, _, _)
filter_loop(so_far, job_refs, i, wanted, threshold) ==
    IF i > Len(job_refs) THEN so_far
    ELSE filter_loop(
             after_job(job_copy(so_far.objects, job_refs[i]), so_far.kept,
                 calculate_skill_match(
                     extract_job_skills(so_far.objects[job_refs[i]]), wanted),
                 threshold),
             job_refs, i + 1, wanted, threshold)

\* filtered_jobs.sort(key=lambda j: j['skills_match'], reverse=True) on a
\* list of references
sorted_refs(objs, refs) ==
    LET keyed == sort_descending(
            [i \in 1..Len(refs) |->
                [ref |-> refs[i], skills_match |-> objs[refs[i]]["skills_match"]]])
    IN  [i \in 1..Len(refs) |-> keyed[i].ref]

\* the list object that filter_jobs_by_skills returns, after the loop
filtered_list(after_loop) ==
    allocate(after_loop.objects,
             [list |-> sorted_refs(after_loop.objects, after_loop.kept)])

\* filter_jobs_by_skills(jobs, skills, min_match) on the list object
\* jobs_ref: the objects it leaves and the reference of the list it returns
filter_jobs_in(objs, jobs_ref, skills_text, threshold) ==
    filtered_list(filter_loop([objects |-> objs, kept |-> <<>>],
                              objs[jobs_ref].list, 1,
                              split_user_skills(skills_text), threshold))

\* the dicts of a list object, in order
items_of(objs, list_ref) ==
    [i \in 1..Len(objs[list_ref].list) |-> objs[objs[list_ref].list[i]]]

\* the list object of the job dicts that generate_example_jobs built
RECURSIVE list_of_jobs(_, _, _)
list_of_jobs(objs, job_dicts, refs) ==
    IF job_dicts = <<>> THEN allocate(objs, [list |-> refs])
    ELSE list_of_jobs(Append(objs, job_dicts[1]), Tail(job_dicts),
                      Append(refs, Len(objs) + 1))

\* search_jobs on objects: a hit returns the list object of the entry; a
\* miss stores and returns one and the same new list object
search_jobs_in(objs, cache, key, example_jobs, t) ==
    IF key \in DOMAIN cache /\ cache_is_fresh(t, entry_timestamp(cache[key]))
    THEN [outcome |-> "hit", ref |-> entry_jobs(cache[key]),
          objects |-> objs, cache |-> cache]
    ELSE IF example_jobs.raised
    THEN [outcome |-> "raised", ref |-> 0, objects |-> objs, cache |-> cache]
    ELSE LET made == list_of_jobs(objs, example_jobs.jobs, <<>>)
         IN  [outcome |-> "stored", ref |-> made.ref, objects |-> made.objects,
              cache |-> store(cache, key, [timestamp |-> t, jobs |-> made.ref])]

(***************************************************************************)
(* The data store of api.py and clean_data / transform_data of             *)
(* data_processing.py. A DataFrame is an object: `frames` holds the frames *)
(* made so far and a reference is a place in it, so that a copy and a      *)
(* write in place are told apart. A frame is [rows |-> its rows], a row    *)
(* the cells of its columns; the frames enumerated hold numeric columns    *)
(* only. A cell is [num |-> n], [nan |-> TRUE], or the value a column      *)
(* operation computes from a cell and its column, kept as the operation    *)
(* and its operands: [mean_of |-> cells], [minmax |-> cell, over |->       *)
(* cells], [log |-> cell, over |-> cells].                                  *)
(***************************************************************************)
\* None, as a reference
None == 0

NaN == [nan |-> TRUE]

isna(cell) == "nan" \in DOMAIN cell

\* df[col]
column_cells(frame, col) == [i \in 1..Len(frame.rows) |-> frame.rows[i][col]]

\* the cells of a column that are not NaN
notna(cells) == SelectSeq(cells, LAMBDA cell : ~isna(cell))

\* df.dropna()
dropna(frame) ==
    [rows |-> SelectSeq(frame.rows,
                        LAMBDA row : \A col \in DOMAIN row : ~isna(row[col]))]

\* df[col].fillna(df[col].mean()): the mean of a column without values is
\* NaN
fill_with_mean(cell, cells) ==
    IF isna(cell) /\ notna(cells) # <<>> THEN [mean_of |-> notna(cells)] ELSE cell

\* df.fillna(0)
fill_with_zero(cell, cells) == IF isna(cell) THEN [num |-> 0] ELSE cell

\* MinMaxScaler().fit_transform(df[[col]]): NaN stays NaN
scaled(cell, cells) ==
    IF isna(cell) THEN cell ELSE [minmax |-> cell, over |-> notna(cells)]

\* np.log of the column, moved above 0 when a value is <= 0
log_of(cell, cells) ==
    IF isna(cell) THEN cell ELSE [log |-> cell, over |-> notna(cells)]

\* what an operation on a column makes of one of its cells
column_op(op, cell, cells) ==
    CASE op = "fillna_mean" -> fill_with_mean(cell, cells)
      [] op = "fillna_zero" -> fill_with_zero(cell, cells)
      [] op = "minmax" -> scaled(cell, cells)
      [] op = "log" -> log_of(cell, cells)

\* df[col] = op(df[col]) for every numeric column
each_cell(frame, op) ==
    [rows |-> [i \in 1..Len(frame.rows) |->
                  [col \in DOMAIN frame.rows[i] |->
                      column_op(op, frame.rows[i][col], column_cells(frame, col))]]]

\* A copy that is the frame itself.
frame_copy_same_object(objs, ref) == [ref |-> ref, objects |-> objs]

\* data.copy()
frame_copy(objs, ref) == allocate(objs, objs[ref])

\* df[col] = op(df[col]) for every numeric column of the frame df, in place
assign_columns(df, op) ==
    [ref |-> df.ref,
     objects |-> [df.objects EXCEPT ![df.ref] = each_cell(@, op)]]

\* clean_data with df being data.copy(): dropna and fillna(0) give a new
\* frame, the mean is assigned column by column
clean_copy(df, method) ==
    IF method = "drop_rows" THEN allocate(df.objects, dropna(df.objects[df.ref]))
    ELSE IF method = "fill_with_mean_mode" THEN assign_columns(df, "fillna_mean")
    ELSE IF method = "fill_with_zeros"
    THEN allocate(df.objects, each_cell(df.objects[df.ref], "fillna_zero"))
    ELSE df

\* clean_data(data, method): the frames it leaves and the reference of the
\* frame it returns
clean_data(objs, data, method) == clean_copy(frame_copy(objs, data), method)

\* transform_data with df being data.copy(): the frame it returns, or the
\* ValueError of MinMaxScaler for a column without rows. A frame of numeric
\* columns has nothing to one-hot encode.
transform_copy(df, method) ==
    IF method = "normalize_numeric_columns"
    THEN IF df.objects[df.ref].rows = <<>>
         THEN [raised |-> TRUE, ref |-> None, objects |-> df.objects]
         ELSE [raised |-> FALSE, ref |-> df.ref,
               objects |-> assign_columns(df, "minmax").objects]
    ELSE IF method = "log_transform"
    THEN [raised |-> FALSE, ref |-> df.ref,
          objects |-> assign_columns(df, "log").objects]
    ELSE [raised |-> FALSE, ref |-> df.ref, objects |-> df.objects]

\* transform_data(data, method)
transform_data(objs, data, method) ==
    transform_copy(frame_copy(objs, data), method)

\* file.filename.split(".")[-1].lower()
file_extension(filename) ==
    lower(split(filename, ".")[Len(split(filename, "."))])

SupportedExtensions ==
    {<<"c", "s", "v">>, <<"x", "l", "s", "x">>, <<"x", "l", "s">>,
     <<"j", "s", "o", "n">>}

\* pd.read_csv, pd.read_excel or pd.read_json on the uploaded content: a
\* new frame, or the exception of the parser
read_file(objs, file) ==
    IF "frame" \in DOMAIN file.content
    THEN [raised |-> FALSE, ref |-> Len(objs) + 1,
          objects |-> Append(objs, file.content.frame)]
    ELSE [raised |-> TRUE, ref |-> None, objects |-> objs]

ParserFailed ==
    [status |-> 500, detail |-> "Failed to process file: str(parser error)"]

\* data_store["data"] = data; data_store["filtered_data"] = data.copy()
store_data(data, copied) ==
    [objects |-> copied.objects,
     store |-> [data |-> data.ref, filtered_data |-> copied.ref],
     response |-> [status |-> 200, detail |-> "File uploaded successfully"]]

\* the try block of upload_file for a supported extension
upload_read(objs, store_before, data) ==
    IF data.raised
    THEN [objects |-> objs, store |-> store_before, response |-> ParserFailed]
    ELSE store_data(data, frame_copy(data.objects, data.ref))

\* upload_file(file): the HTTPException(400) of the else branch is raised
\* inside the try block, and `except Exception` turns it, like the
\* exception of a parser, into an HTTPException(500)
upload_file(objs, store_before, file, extension) ==
    IF extension \notin SupportedExtensions
    THEN [objects |-> objs, store |-> store_before,
          response |-> [status |-> 500,
                        detail |-> "Failed to process file: str(HTTPException(400, 'Unsupported file format'))"]]
    ELSE upload_read(objs, store_before, read_file(objs, file))

NoData ==
    [status |-> 404, detail |-> "No data available. Please upload a file first."]

\* data_store["filtered_data"] = the frame that clean_data returned
clean_stored(store_before, cleaned) ==
    [objects |-> cleaned.objects,
     store |-> [store_before EXCEPT !.filtered_data = cleaned.ref],
     response |-> [status |-> 200, detail |-> "Data cleaned"]]

\* A clean that works on filtered_data.
clean_dataset_of_filtered(objs, store_before, method) ==
    IF store_before.data = None
    THEN [objects |-> objs, store |-> store_before, response |-> NoData]
    ELSE clean_stored(store_before,
                      clean_data(objs, store_before.filtered_data, method))

\* clean_dataset(request)
clean_dataset(objs, store_before, method) ==
    IF store_before.data = None
    THEN [objects |-> objs, store |-> store_before, response |-> NoData]
    ELSE clean_stored(store_before, clean_data(objs, store_before.data, method))

\* the try block of transform_dataset, transformed being what
\* transform_data(data_store["filtered_data"], request.method) gave
transform_stored(objs, store_before, transformed) ==
    IF transformed.raised
    THEN [objects |-> objs, store |-> store_before,
          response |-> [status |-> 500, detail |-> "Failed to transform data"]]
    ELSE [objects |-> transformed.objects,
          store |-> [store_before EXCEPT !.filtered_data = transformed.ref],
          response |-> [status |-> 200, detail |-> "Data transformed"]]

\* transform_dataset(request)
transform_dataset(objs, store_before, method) ==
    IF store_before.filtered_data = None
    THEN [objects |-> objs, store |-> store_before, response |-> NoData]
    ELSE transform_stored(objs, store_before,
             transform_data(objs, store_before.filtered_data, method))

(***************************************************************************)
(* Bounds and input pools                                                  *)
(***************************************************************************)
\* The longest job skill list and user skill list of the enumerated inputs.
MaxJobSkills == 2
MaxUserSkills == 3
\* The longest user skill list of the long inputs (matched * "a", then "c").
MaxLongSkills == 40

\* An empty token, a blank one, a plain one, one to trim and lower-case that
\* contains "a", and one that matches none of the others.
SkillTokens ==
    {<<>>, <<" ">>, <<"a">>, <<" ", "A", "b", " ">>, <<"c">>}

SeqsUpTo(S, maxlen) == UNION {[1..k -> S] : k \in 0..maxlen}

\* n user skills of which the first `matched` are "a", against the job skill "a"
LongInputs ==
    {[js |-> <<(<<"a">>)>>,
      us |-> [i \in 1..total |-> IF i <= matched THEN <<"a">> ELSE <<"c">>]] :
        total \in 1..MaxLongSkills, matched \in 0..MaxLongSkills}
    \* (matched > total gives the same list as matched = total)

MatchInputs ==
    {[js |-> a, us |-> b] :
        a \in SeqsUpTo(SkillTokens, MaxJobSkills),
        b \in SeqsUpTo(SkillTokens, MaxUserSkills)}
    \cup LongInputs

\* The longest job list given to filter_jobs_by_skills.
MaxJobs == 3

\* Requirements texts: two pattern lines; a line with two pattern matches, a
\* second dash and a line without a dash; a line without the pattern; a
\* pattern whose group is one blank.
TwoSkillsText == <<"-", " ", "P", "r", "o", "f", "i", "c", "i", "e", "n", "c", "y", " ",
      "i", "n", " ", "a", "\n", "-", " ", "E", "x", "p", "e", "r", "i",
      "e", "n", "c", "e", " ", "w", "i", "t", "h", " ", "b">>
MixedText == <<"-", " ", "K", "n", "o", "w", "l", "e", "d", "g", "e", " ", " ", "i",
      "n", " ", " ", "C", ",", " ", "x", ".", " ", "-", " ", "E", "x", "p",
      "e", "r", "i", "e", "n", "c", "e", " ", "w", "i", "t", "h", " ", "b",
      "\n", "n", "o", " ", "d", "a", "s", "h", " ", "a">>
PlainText == <<"-", " ", "z", "z">>
BlankGroupText == <<"-", " ", "e", "x", "p", "e", "r", "i", "e", "n", "c", "e", " ", "i",
      "n", " ", " ", ".">>

\* Jobs without their id: with and without a previous skills_match, with the
\* requirements a str, a list of skill strs, or missing.
JobTemplates ==
    {[requirements |-> [str |-> TwoSkillsText], skills_match |-> 100],
     [requirements |-> [str |-> MixedText]],
     [requirements |-> [str |-> PlainText], skills_match |-> 0],
     [requirements |-> [list |-> <<(<<"a">>), (<<"b">>)>>], skills_match |-> 100],
     [title |-> <<"x">>],
     [requirements |-> [str |-> BlankGroupText]]}

\* The skills argument: "a", "a,b", " A , zz,", "" and "b,c,q".
SkillsTexts ==
    {<<"a">>, <<"a", ",", "b">>, <<" ", "A", " ", ",", " ", "z", "z", ",">>,
     <<>>, <<"b", ",", "c", ",", "q">>}

\* The min_match argument (0 is its default).
MinMatchValues == {0, 33, 50, 67, 100}

\* job['id'] = the place of the job in the list
with_id(job, i) ==
    [k \in DOMAIN job \cup {"id"} |-> IF k = "id" THEN i ELSE job[k]]

JobLists ==
    {[i \in 1..Len(templates) |-> with_id(templates[i], i)] :
        templates \in SeqsUpTo(JobTemplates, MaxJobs)}

(***************************************************************************)
(* Specification SpecMatch: one call of calculate_skill_match              *)
(***************************************************************************)
FilterIdle ==
    /\ jobs = <<>> /\ skills = <<>> /\ min_match = 0 /\ filtered_jobs = <<>>

CacheIdle ==
    /\ job_cache = <<>> /\ cache_file = <<>> /\ now = 0
    /\ last_call = <<>> /\ stored_by = <<>>
    /\ calls = 0 /\ ticks = 0 /\ bypassed = FALSE

Procs == {1, 2}

ProcIdle ==
    /\ shared_file = missing_file
    /\ proc_cache = [p \in Procs |-> <<>>]
    /\ proc_pc = [p \in Procs |-> "import"]
    /\ proc_calls = [p \in Procs |-> 0]
    /\ last_writer = 0

CatalogIdle ==
    /\ cat_jobs = <<>> /\ cat_reference = <<>> /\ cat_filters = <<>>
    /\ cat_jitters = <<>> /\ cat_max = 0 /\ cat_result = <<>>

ObjectIdle ==
    /\ objects = <<>> /\ cache_refs = <<>> /\ known_lists = {}
    /\ last_filter = <<>> /\ object_calls = 0

ApiIdle ==
    /\ frames = <<>> /\ data_store = <<>> /\ last_response = <<>>
    /\ requests = <<>>
    /\ api_calls = 0

StoreIdle ==
    /\ use_database = FALSE /\ foreign_keys = FALSE
    /\ db_users = <<>> /\ db_saved_jobs = <<>> /\ user_files = <<>>
    /\ next_id = 1 /\ store_call = <<>> /\ store_calls = 0
    /\ known_users = {} /\ live_saves = {} /\ deleted_saves = {}

InitMatch ==
    /\ \E inp \in MatchInputs : job_skills = inp.js /\ user_skills = inp.us
    /\ match_result = 0
    /\ pc = "call"
    /\ FilterIdle
    /\ CacheIdle
    /\ StoreIdle
    /\ ProcIdle
    /\ CatalogIdle
    /\ ObjectIdle
    /\ ApiIdle

CallCalculateSkillMatch ==
    /\ pc = "call"
    /\ match_result' = calculate_skill_match(job_skills, user_skills)
    /\ pc' = "done"
    /\ UNCHANGED <<job_skills, user_skills, filterVars, cacheVars, storeVars, procVars, catalogVars, objectVars, apiVars>>

NextMatch == CallCalculateSkillMatch

SpecMatch == InitMatch /\ [][NextMatch]_vars

(***************************************************************************)
(* Specification SpecFilter: one call of filter_jobs_by_skills             *)
(***************************************************************************)
MatchIdle ==
    /\ job_skills = <<>> /\ user_skills = <<>> /\ match_result = 0

InitFilter ==
    /\ jobs \in JobLists
    /\ skills \in SkillsTexts
    /\ min_match \in MinMatchValues
    /\ filtered_jobs = <<>>
    /\ pc = "call"
    /\ MatchIdle
    /\ CacheIdle
    /\ StoreIdle
    /\ ProcIdle
    /\ CatalogIdle
    /\ ObjectIdle
    /\ ApiIdle

CallFilterJobsBySkills ==
    /\ pc = "call"
    /\ filtered_jobs' = filter_jobs_by_skills(jobs, skills, min_match)
    /\ pc' = "done"
    /\ UNCHANGED <<jobs, skills, min_match, matchVars, cacheVars, storeVars, procVars, catalogVars, objectVars, apiVars>>

NextFilter == CallFilterJobsBySkills

SpecFilter == InitFilter /\ [][NextFilter]_vars

(***************************************************************************)
(* Specification SpecCache: one process calling search_jobs as time passes *)
(***************************************************************************)
MaxCalls == 2
MaxTicks == 2

\* (keywords, location) of the calls: the last two share a search_key
QueryPool ==
    {<<(<<"a">>), (<<>>)>>,
     <<(<<"A", " ", "b", ",", " ", "C">>), (<<>>)>>,
     <<(<<"a">>), (<<"B", ",", " ", "c", " ">>)>>}

MaxResultsPool == {1, 11}

\* the clock advances by a second or by a second less than 24 hours
TickSteps == {1, CacheLifetime - 1}

\* the process starts as the 9th of the month begins
StartTimes == {8 * SecondsPerDay}

\* what load_job_cache finds at import: no file or an empty document, or
\* entries another process wrote, one at time 0 and one without timestamp
InitialDocuments ==
    {<<>>,
     store(store(<<>>, search_key(<<"a">>, <<>>),
                 [timestamp |-> 0,
                  jobs |-> generate_example_jobs(<<"a">>, <<>>, 1, 0).jobs]),
           search_key(<<"a">>, <<"B", ",", " ", "c", " ">>), [jobs |-> <<>>])}

InitCache ==
    /\ \E document \in InitialDocuments :
        job_cache = document /\ cache_file = document
    /\ now \in StartTimes
    /\ last_call = <<>>
    /\ stored_by = <<>>
    /\ calls = 0
    /\ ticks = 0
    /\ bypassed = FALSE
    /\ pc = "idle"
    /\ MatchIdle
    /\ FilterIdle
    /\ StoreIdle
    /\ ProcIdle
    /\ CatalogIdle
    /\ ObjectIdle
    /\ ApiIdle

\* What a call of search_jobs that ended as `call` leaves behind,
\* save_job_cache included. stored_by remembers, for each (keywords,
\* location), the entry the last call with these arguments wrote; bypassed,
\* whether some call had use_cache=False.
SearchJobsEnds(keywords, location, max_results, use_cache, call) ==
    /\ job_cache' = call.cache
    /\ cache_file' = IF call.outcome = "stored" THEN call.cache ELSE cache_file
    /\ last_call' = [keywords |-> keywords, location |-> location,
                     max_results |-> max_results, use_cache |-> use_cache,
                     at |-> now,
                     outcome |-> call.outcome, returned |-> call.returned]
    /\ stored_by' = IF call.outcome = "stored"
                    THEN store(stored_by, <<keywords, location>>,
                               call.cache[search_key(keywords, location)])
                    ELSE stored_by
    /\ bypassed' = (bypassed \/ ~use_cache)

\* One call of search_jobs
SearchJobs ==
    /\ calls < MaxCalls
    /\ \E query \in QueryPool, max_results \in MaxResultsPool,
          use_cache \in BOOLEAN :
        SearchJobsEnds(query[1], query[2], max_results, use_cache,
            search_jobs(job_cache, query[1], query[2], max_results,
                        use_cache, now))
    /\ calls' = calls + 1
    /\ pc' = "called"
    /\ UNCHANGED <<now, ticks, matchVars, filterVars, storeVars, procVars, catalogVars, objectVars, apiVars>>

\* time.time() moves on between two calls
Tick ==
    /\ ticks < MaxTicks
    /\ \E step \in TickSteps : now' = now + step
    /\ ticks' = ticks + 1
    /\ UNCHANGED <<job_cache, cache_file, last_call, stored_by, calls,
                   bypassed, pc, matchVars, filterVars, storeVars, procVars, catalogVars, objectVars, apiVars>>

NextCache == SearchJobs \/ Tick

SpecCache == InitCache /\ [][NextCache]_vars

(***************************************************************************)
(* Specification SpecStore: one process calling create_user,               *)
(* save_job_for_user, get_saved_jobs and delete_saved_job, the database    *)
(* answering or raising during each call                                   *)
(***************************************************************************)
MaxStoreCalls == 4

EmailsPool == {"ann@example.com", "bob@example.com"}

\* job records and the match percentages they are saved with
SavedPool ==
    {[job |-> [id |-> "job_1", title |-> "Python Developer"], pct |-> 100],
     [job |-> [id |-> "job_2", title |-> "Sql Analyst"], pct |-> 50]}

\* an id that generate_id never gave
UnknownId == generate_id(0)

the_store ==
    [users |-> db_users, saved_jobs |-> db_saved_jobs, files |-> user_files,
     next |-> next_id]

InitStore ==
    /\ use_database \in BOOLEAN
    /\ foreign_keys \in BOOLEAN
    /\ db_users = <<>>
    /\ db_saved_jobs = <<>>
    /\ user_files = <<>>
    /\ next_id = 1
    /\ store_call = <<>>
    /\ store_calls = 0
    /\ known_users = {}
    /\ live_saves = {}
    /\ deleted_saves = {}
    /\ pc = "idle"
    /\ MatchIdle
    /\ FilterIdle
    /\ CacheIdle
    /\ ProcIdle
    /\ CatalogIdle
    /\ ObjectIdle
    /\ ApiIdle

\* what a call that ended as `outcome` leaves behind
StoreCallEnds(op, user_id, saved, saved_job_id, reached, outcome) ==
    /\ db_users' = outcome.store.users
    /\ db_saved_jobs' = outcome.store.saved_jobs
    /\ user_files' = outcome.store.files
    /\ next_id' = outcome.store.next
    /\ store_call' = [op |-> op, user_id |-> user_id, saved |-> saved,
                      saved_job_id |-> saved_job_id, reached |-> reached,
                      result |-> outcome.result]
    /\ store_calls' = store_calls + 1
    /\ pc' = "called"
    /\ UNCHANGED <<use_database, foreign_keys, matchVars, filterVars, cacheVars,
                   procVars, catalogVars, objectVars, apiVars>>

CreateUser ==
    /\ store_calls < MaxStoreCalls
    /\ \E email \in EmailsPool, available \in BOOLEAN :
        /\ StoreCallEnds("create_user", UnknownId, <<>>, UnknownId,
               use_database /\ available,
               create_user(the_store, use_database /\ available, email))
        /\ known_users' = known_users \cup {store_call'.result.value}
    /\ UNCHANGED <<live_saves, deleted_saves>>

SaveJobForUser ==
    /\ store_calls < MaxStoreCalls
    /\ \E user_id \in known_users \cup {UnknownId}, saved \in SavedPool,
          available \in BOOLEAN :
        /\ StoreCallEnds("save_job_for_user", user_id, saved, UnknownId,
               use_database /\ available,
               save_job_for_user(the_store, use_database /\ available,
                   foreign_keys, user_id, saved.job, saved.pct))
        /\ live_saves' =
               IF store_call'.result.kind = "id"
               THEN live_saves \cup
                        {[user_id |-> user_id, saved_job_id |-> store_call'.result.value,
                          job |-> saved.job, pct |-> saved.pct]}
               ELSE live_saves
    /\ UNCHANGED <<known_users, deleted_saves>>

GetSavedJobs ==
    /\ store_calls < MaxStoreCalls
    /\ \E user_id \in known_users \cup {UnknownId}, available \in BOOLEAN :
        StoreCallEnds("get_saved_jobs", user_id, <<>>, UnknownId,
            use_database /\ available,
            get_saved_jobs(the_store, use_database /\ available, user_id))
    /\ UNCHANGED <<known_users, live_saves, deleted_saves>>

DeleteSavedJob ==
    /\ store_calls < MaxStoreCalls
    /\ \E user_id \in known_users \cup {UnknownId},
          saved_job_id \in {s.saved_job_id : s \in live_saves}
                           \cup {d[2] : d \in deleted_saves} \cup {UnknownId},
          available \in BOOLEAN :
        /\ StoreCallEnds("delete_saved_job", user_id, <<>>, saved_job_id,
               use_database /\ available,
               delete_saved_job(the_store, use_database /\ available,
                                user_id, saved_job_id))
        /\ live_saves' =
               IF store_call'.result.value
               THEN {s \in live_saves :
                        ~(s.user_id = user_id /\ s.saved_job_id = saved_job_id)}
               ELSE live_saves
        /\ deleted_saves' =
               IF store_call'.result.value
               THEN deleted_saves \cup {<<user_id, saved_job_id>>}
               ELSE deleted_saves
    /\ UNCHANGED known_users

NextStore == CreateUser \/ SaveJobForUser \/ GetSavedJobs \/ DeleteSavedJob

SpecStore == InitStore /\ [][NextStore]_vars

(***************************************************************************)
(* SpecProcs: two processes import job_scraper and call search_jobs; they  *)
(* share job_cache.json without locking                                    *)
(***************************************************************************)
MaxProcCalls == 1

\* the processes start as the 10th of the month begins
ProcStartTimes == {9 * SecondsPerDay}

\* what the first import finds: no file, a file it may not read, a file
\* that is not JSON, or a document
InitialFiles ==
    {missing_file, unreadable_file, invalid_file}
        \cup {file_of(document) : document \in InitialDocuments}

InitProcs ==
    /\ shared_file \in InitialFiles
    /\ proc_cache = [p \in Procs |-> <<>>]
    /\ proc_pc = [p \in Procs |-> "import"]
    /\ proc_calls = [p \in Procs |-> 0]
    /\ last_writer = 0
    /\ job_cache = <<>> /\ cache_file = <<>> /\ now \in ProcStartTimes
    /\ last_call = <<>> /\ stored_by = <<>>
    /\ calls = 0 /\ ticks = 0 /\ bypassed = FALSE
    /\ pc = "idle"
    /\ MatchIdle
    /\ FilterIdle
    /\ StoreIdle
    /\ CatalogIdle
    /\ ObjectIdle
    /\ ApiIdle

\* the import of job_scraper in process p: load_job_cache(), as far as the
\* open of save_job_cache when the file was missing
LoadJobCacheEnds(p, load) ==
    /\ proc_cache' = [proc_cache EXCEPT ![p] = load.cache]
    /\ shared_file' = load.file
    /\ proc_pc' = [proc_pc EXCEPT
                      ![p] = IF load.outcome = "raised" THEN "import_failed"
                             ELSE IF load.outcome = "created" THEN "opened"
                             ELSE "idle"]

LoadJobCache ==
    /\ \E p \in Procs :
        /\ proc_pc[p] = "import"
        /\ LoadJobCacheEnds(p, load_job_cache(shared_file))
    /\ UNCHANGED <<proc_calls, last_writer, pc, matchVars, filterVars,
                   cacheVars, storeVars, catalogVars, objectVars, apiVars>>

\* search_jobs in process p, as far as the open of save_job_cache when the
\* call stores an entry
ProcSearchJobsEnds(p, call) ==
    /\ proc_cache' = [proc_cache EXCEPT ![p] = call.cache]
    /\ shared_file' = IF call.outcome = "stored" THEN opened_for_writing
                      ELSE shared_file
    /\ proc_pc' = [proc_pc EXCEPT
                      ![p] = IF call.outcome = "stored" THEN "opened" ELSE "idle"]

ProcSearchJobs ==
    /\ \E p \in Procs :
        /\ proc_pc[p] = "idle"
        /\ proc_calls[p] < MaxProcCalls
        /\ \E query \in QueryPool, max_results \in MaxResultsPool,
              use_cache \in BOOLEAN :
            ProcSearchJobsEnds(p,
                search_jobs(proc_cache[p], query[1], query[2], max_results,
                            use_cache, now))
        /\ proc_calls' = [proc_calls EXCEPT ![p] = @ + 1]
    /\ UNCHANGED <<last_writer, pc, matchVars, filterVars, cacheVars, storeVars,
                   catalogVars, objectVars, apiVars>>

\* json.dump and the close of save_job_cache in process p
WriteJobCache ==
    /\ \E p \in Procs :
        /\ proc_pc[p] = "opened"
        /\ shared_file' = written(shared_file, proc_cache[p],
                                  json_length(proc_cache[p]))
        /\ proc_pc' = [proc_pc EXCEPT ![p] = "idle"]
        /\ last_writer' = p
    /\ UNCHANGED <<proc_cache, proc_calls, pc, matchVars, filterVars,
                   cacheVars, storeVars, catalogVars, objectVars, apiVars>>

NextProcs == LoadJobCache \/ ProcSearchJobs \/ WriteJobCache

SpecProcs == InitProcs /\ [][NextProcs]_vars

(***************************************************************************)
(* SpecPipeline: the "Find Jobs" form of render_job_matcher_ui, which      *)
(* calls search_jobs and then filter_jobs_by_skills                        *)
(***************************************************************************)
\* what the user typed into "Skills to search for"
PipelineTexts ==
    {<<>>, <<" ">>, <<",">>, <<" ", ",", " ">>, <<"a">>,
     <<"a", ",", " ", ",", "b">>, <<",", " ", "b">>}

PipelineLocations == {<<>>, <<"R", "e", "m", "o", "t", "e">>}

PipelineMinMatch == {0, 1, 50, 100}

\* the form is submitted on the 9th or on the 10th of the month
PipelineTimes == {8 * SecondsPerDay, 9 * SecondsPerDay}

InitPipeline ==
    /\ skills \in PipelineTexts
    /\ min_match \in PipelineMinMatch
    /\ now \in PipelineTimes
    /\ jobs = <<>>
    /\ filtered_jobs = <<>>
    /\ job_cache = <<>> /\ cache_file = <<>>
    /\ last_call = <<>> /\ stored_by = <<>>
    /\ calls = 0 /\ ticks = 0 /\ bypassed = FALSE
    /\ pc = "call"
    /\ MatchIdle
    /\ StoreIdle
    /\ ProcIdle
    /\ CatalogIdle
    /\ ObjectIdle
    /\ ApiIdle

\* `if submitted:` with a skill text that passed `search_skills.strip()`:
\* `call` is what search_jobs(search_skills, location, max_results=10) did
FindJobsEnds(location, call) ==
    /\ job_cache' = call.cache
    /\ cache_file' = IF call.outcome = "stored" THEN call.cache ELSE cache_file
    /\ jobs' = call.returned
    /\ filtered_jobs' = IF call.outcome = "raised" THEN filtered_jobs
                        ELSE filter_jobs_by_skills(call.returned, skills, min_match)
    /\ last_call' = [location |-> location, outcome |-> call.outcome]

\* `if submitted:` of the form: st.error for a text that strips to nothing,
\* the search and the filter otherwise; st.session_state.job_results is
\* filtered_jobs
FindJobs ==
    /\ pc = "call"
    /\ \E location \in PipelineLocations :
        IF strip(skills) = <<>>
        THEN /\ last_call' = [location |-> location, outcome |-> "error"]
             /\ UNCHANGED <<job_cache, cache_file, jobs, filtered_jobs>>
        ELSE FindJobsEnds(location,
                 search_jobs(job_cache, skills, location, 10, TRUE, now))
    /\ pc' = "done"
    /\ UNCHANGED <<skills, min_match, now, stored_by, calls, ticks, bypassed,
                   matchVars, storeVars, procVars, catalogVars, objectVars, apiVars>>

NextPipeline == FindJobs

SpecPipeline == InitPipeline /\ [][NextPipeline]_vars

(***************************************************************************)
(* SpecFilterAndScore: one call of filter_and_score                        *)
(***************************************************************************)
\* The longest job list enumerated for filter_and_score.
MaxCatalogJobs == 2

RemoteSeniorJob ==
    [location |-> <<"R", "e", "m", "o", "t", "e">>,
     experience |-> <<"5", "-", "7", " ", "y", "e", "a", "r", "s">>,
     industry |-> <<"T", "e", "c", "h">>,
     skills |-> <<<<"p", "y", "t", "h", "o", "n">>, <<"s", "q", "l">>>>]

NewYorkJuniorJob ==
    [location |-> <<"N", "e", "w", " ", "Y", "o", "r", "k", ",", " ", "N", "Y">>,
     experience |-> <<"1", "-", "3", " ", "y", "e", "a", "r", "s">>,
     industry |-> <<"F", "i", "n", "a", "n", "c", "e">>,
     skills |-> <<<<"j", "a", "v", "a">>>>]

RemoteEntryJob ==
    [location |-> <<"R", "E", "M", "O", "T", "E", " ", "(", "U", "S", ")">>,
     experience |-> <<"e", "n", "t", "r", "y">>,
     industry |-> <<"t", "e", "c", "h">>,
     skills |-> <<<<"p", "y", "t", "h", "o", "n">>>>]

AustinMidJob ==
    [location |-> <<"A", "u", "s", "t", "i", "n", ",", " ", "T", "X", " ", "(", "r", "e",
            "m", "o", "t", "e", " ", "o", "k", ")">>,
     experience |-> <<"3", "-", "5", " ", "y", "e", "a", "r", "s">>,
     industry |-> <<"T", "e", "c", "h">>,
     skills |-> <<<<"s", "q", "l">>, <<"e", "x", "c", "e", "l">>>>]

NoLocationJob ==
    [location |-> <<>>,
     experience |-> <<"1", "0", "-", "1", "2", " ", "y", "e", "a", "r", "s">>,
     industry |-> <<"F", "i", "n", "a", "n", "c", "e">>,
     skills |-> <<>>]

SeattleLeadJob ==
    [location |-> <<"S", "e", "a", "t", "t", "l", "e", ",", " ", "W", "A">>,
     experience |-> <<"7", "-", "9", " ", "y", "e", "a", "r", "s">>,
     industry |-> <<"T", "e", "c", "h">>,
     skills |-> <<<<"p", "y", "t", "h", "o", "n">>, <<"j", "a", "v", "a">>>>]

\* a job without location, experience and industry fields
BareJob == [skills |-> <<<<"p", "y", "t", "h", "o", "n">>>>]

CatalogJobTemplates ==
    {RemoteSeniorJob, NewYorkJuniorJob, RemoteEntryJob, AustinMidJob,
     NoLocationJob, SeattleLeadJob, BareJob}

\* ten jobs of which three hold "remote" in their location
TenJobsThreeRemote ==
    <<NewYorkJuniorJob, RemoteSeniorJob, SeattleLeadJob, NoLocationJob,
      RemoteEntryJob, NewYorkJuniorJob, BareJob, AustinMidJob,
      SeattleLeadJob, NewYorkJuniorJob>>

\* the experience strings "5-7 years", "1-3 years" and "entry"
ThreeExperiences == <<RemoteSeniorJob, NewYorkJuniorJob, RemoteEntryJob>>

CatalogJobLists ==
    {[i \in 1..Len(templates) |-> with_id(templates[i], i)] :
        templates \in SeqsUpTo(CatalogJobTemplates, MaxCatalogJobs)
                          \cup {TenJobsThreeRemote, ThreeExperiences}}

ReferenceSkills == <<<<"P", "y", "t", "h", "o", "n">>, <<"S", "Q", "L">>>>

\* a filter that may be absent: the records with this key or without it
OptionalFilter(key, values) ==
    {<<>>} \cup {[k \in {key} |-> value] : value \in values}

\* the union of four records with different keys
merged(a, b, c, d) ==
    [k \in DOMAIN a \cup DOMAIN b \cup DOMAIN c \cup DOMAIN d |->
        IF k \in DOMAIN a THEN a[k]
        ELSE IF k \in DOMAIN b THEN b[k]
        ELSE IF k \in DOMAIN c THEN c[k]
        ELSE d[k]]

FilterSets ==
    {merged(location, industry, experience, threshold) :
        location \in OptionalFilter("location", {<<"R", "e", "m", "o", "t", "e">>, <<"y", "o", "r", "k">>}),
        industry \in OptionalFilter("industry", {AllIndustries, <<"t", "e", "c", "h">>}),
        experience \in OptionalFilter("experience",
                          {AllLevels, EntryLevel, MidLevel, SeniorLevel}),
        threshold \in OptionalFilter("min_match", {50})}

InitFilterAndScore ==
    /\ cat_jobs \in CatalogJobLists
    /\ cat_reference = ReferenceSkills
    /\ cat_filters \in FilterSets
    /\ cat_jitters = <<>>
    /\ cat_max = 0
    /\ cat_result = <<>>
    /\ pc = "call"
    /\ MatchIdle
    /\ FilterIdle
    /\ CacheIdle
    /\ StoreIdle
    /\ ProcIdle
    /\ ObjectIdle
    /\ ApiIdle

CallFilterAndScore ==
    /\ pc = "call"
    /\ cat_result' = filter_and_score(cat_jobs, cat_reference, cat_filters)
    /\ pc' = "done"
    /\ UNCHANGED <<cat_jobs, cat_reference, cat_filters, cat_jitters, cat_max,
                   matchVars, filterVars, cacheVars, storeVars, procVars, objectVars, apiVars>>

NextFilterAndScore == CallFilterAndScore

SpecFilterAndScore == InitFilterAndScore /\ [][NextFilterAndScore]_vars

(***************************************************************************)
(* SpecCatalog: one call of the static-catalog get_jobs                    *)
(***************************************************************************)
\* The longest catalog enumerated.
MaxListings == 2

\* listings of which the reference skills match 2 of 3, none, and all
TwoOfThreeListing == [skills_required |-> <<<<"p", "y", "t", "h", "o", "n">>, <<"s", "q", "l">>, <<"e", "x", "c", "e", "l">>>>]
UnmatchedListing == [skills_required |-> <<<<"j", "a", "v", "a">>>>]
MatchedListing == [skills_required |-> <<<<"P", "y", "t", "h", "o", "n">>, <<"S", "Q", "L">>>>]

ListingTemplates == {TwoOfThreeListing, UnmatchedListing, MatchedListing}

Catalogs ==
    {[i \in 1..Len(templates) |-> with_id(templates[i], i)] :
        templates \in SeqsUpTo(ListingTemplates, MaxListings)}

CatalogReference == <<<<"P", "y", "t", "h", "o", "n">>, <<"S", "Q", "L">>, <<"M", "a", "c", "h", "i", "n", "e", " ", "L", "e", "a", "r", "n", "i",
            "n", "g">>>>

\* the jitter: a whole number of points drawn from [-5, +5]
JitterValues == (-5)..5

InitCatalog ==
    /\ cat_jobs \in Catalogs
    /\ cat_reference = CatalogReference
    /\ cat_filters \in OptionalFilter("min_match", {70})
    /\ cat_jitters = <<>>
    /\ cat_max \in {1, 10}
    /\ cat_result = <<>>
    /\ pc = "call"
    /\ MatchIdle
    /\ FilterIdle
    /\ CacheIdle
    /\ StoreIdle
    /\ ProcIdle
    /\ ObjectIdle
    /\ ApiIdle

\* the call draws a jitter for each listing
CallStaticCatalog ==
    /\ pc = "call"
    /\ \E jitter_of \in [1..Len(cat_jobs) -> JitterValues] :
        /\ cat_jitters' = jitter_of
        /\ cat_result' = static_catalog_jobs(cat_jobs, cat_reference, jitter_of,
                                             cat_filters, cat_max)
    /\ pc' = "done"
    /\ UNCHANGED <<cat_jobs, cat_reference, cat_filters, cat_max,
                   matchVars, filterVars, cacheVars, storeVars, procVars, objectVars, apiVars>>

NextCatalog == CallStaticCatalog

SpecCatalog == InitCatalog /\ [][NextCatalog]_vars

(***************************************************************************)
(* SpecObjects: a process calls search_jobs and passes the lists it holds  *)
(* to filter_jobs_by_skills                                                *)
(***************************************************************************)
\* The calls of search_jobs and filter_jobs_by_skills a behaviour makes.
MaxObjectCalls == 3

\* The jobs asked of search_jobs.
MaxObjectJobs == 2

ObjectQueries ==
    {<<(<<"a">>), (<<>>)>>, <<(<<"a", ",", " ", "b">>), (<<"R", "e", "m", "o", "t", "e">>)>>}

ObjectSkillsTexts == {<<"a">>, <<"b", ",", " ", "z", "z">>}

ObjectMinMatch == {0, 50}

\* the calls are made on the 10th of the month
ObjectTime == 9 * SecondsPerDay

InitObjects ==
    /\ objects = <<>>
    /\ cache_refs = <<>>
    /\ known_lists = {}
    /\ last_filter = <<>>
    /\ object_calls = 0
    /\ pc = "idle"
    /\ MatchIdle
    /\ FilterIdle
    /\ CacheIdle
    /\ StoreIdle
    /\ ProcIdle
    /\ CatalogIdle
    /\ ApiIdle

ObjectSearchEnds(call) ==
    /\ objects' = call.objects
    /\ cache_refs' = call.cache
    /\ known_lists' = known_lists \cup {call.ref}

\* jobs = search_jobs(keywords, location, max_results)
ObjectSearchJobs ==
    /\ object_calls < MaxObjectCalls
    /\ \E query \in ObjectQueries, max_results \in {1, MaxObjectJobs} :
        ObjectSearchEnds(
            search_jobs_in(objects, cache_refs, search_key(query[1], query[2]),
                generate_example_jobs(query[1], query[2], max_results, ObjectTime),
                ObjectTime))
    /\ object_calls' = object_calls + 1
    /\ pc' = "searched"
    /\ UNCHANGED <<last_filter, matchVars, filterVars, cacheVars, storeVars,
                   procVars, catalogVars, apiVars>>

ObjectFilterEnds(jobs_ref, skills_text, threshold, call) ==
    /\ objects' = call.objects
    /\ known_lists' = known_lists \cup {call.ref}
    /\ last_filter' = [jobs |-> jobs_ref, skills |-> skills_text,
                       min_match |-> threshold, returned |-> call.ref]

\* filter_jobs_by_skills(jobs, skills, min_match) on a list the caller got
\* from search_jobs or from an earlier filter_jobs_by_skills
ObjectFilterJobs ==
    /\ object_calls < MaxObjectCalls
    /\ \E jobs_ref \in known_lists, skills_text \in ObjectSkillsTexts,
          threshold \in ObjectMinMatch :
        ObjectFilterEnds(jobs_ref, skills_text, threshold,
            filter_jobs_in(objects, jobs_ref, skills_text, threshold))
    /\ object_calls' = object_calls + 1
    /\ pc' = "filtered"
    /\ UNCHANGED <<cache_refs, matchVars, filterVars, cacheVars, storeVars,
                   procVars, catalogVars, apiVars>>

NextObjects == ObjectSearchJobs \/ ObjectFilterJobs

SpecObjects == InitObjects /\ [][NextObjects]_vars

(***************************************************************************)
(* SpecApi: upload, clean and transform requests answered one after the    *)
(* other                                                                   *)
(***************************************************************************)
\* The requests of a behaviour.
MaxApiCalls == 3

\* a frame with a missing value in its first row, and one whose only row
\* has a missing value
FrameWithGap ==
    [rows |-> <<(<<[num |-> 1], NaN>>), (<<[num |-> 3], [num |-> 4]>>)>>]

FrameOfGaps == [rows |-> <<(<<NaN, [num |-> 0]>>)>>]

\* the uploads: files a parser reads, one in another format, one that its
\* parser rejects, and one without extension
UploadedFiles ==
    {[filename |-> <<"d", ".", "c", "s", "v">>, content |-> [frame |-> FrameWithGap]],
     [filename |-> <<"a", ".", "b", ".", "J", "S", "O", "N">>,
      content |-> [frame |-> FrameOfGaps]],
     [filename |-> <<"n", ".", "t", "x", "t">>, content |-> [frame |-> FrameOfGaps]],
     [filename |-> <<"b", ".", "x", "l", "s">>, content |-> [garbage |-> TRUE]],
     [filename |-> <<"c", "s", "v">>, content |-> [garbage |-> TRUE]]}

CleanMethods == {"drop_rows", "fill_with_mean_mode", "fill_with_zeros"}

TransformMethods ==
    {"normalize_numeric_columns", "log_transform", "one_hot_encode_categorical"}

\* data_store = {"data": None, "filtered_data": None}
InitApi ==
    /\ frames = <<>>
    /\ data_store = [data |-> None, filtered_data |-> None]
    /\ last_response = <<>>
    /\ requests = <<>>
    /\ api_calls = 0
    /\ pc = "idle"
    /\ MatchIdle
    /\ FilterIdle
    /\ CacheIdle
    /\ StoreIdle
    /\ ProcIdle
    /\ CatalogIdle
    /\ ObjectIdle

\* what a request answered as `answer` leaves behind
RequestEnds(request, answer) ==
    /\ api_calls < MaxApiCalls
    /\ frames' = answer.objects
    /\ data_store' = answer.store
    /\ last_response' = answer.response
    /\ requests' = Append(requests,
                          [request EXCEPT !.status = answer.response.status])
    /\ api_calls' = api_calls + 1
    /\ pc' = "answered"
    /\ UNCHANGED <<matchVars, filterVars, cacheVars, storeVars, procVars,
                   catalogVars, objectVars>>

\* POST /api/upload
UploadFile ==
    \E file \in UploadedFiles :
        RequestEnds([op |-> "upload", file |-> file, status |-> 0],
                    upload_file(frames, data_store, file,
                                 file_extension(file.filename)))

\* POST /api/data/clean
CleanDataset ==
    \E method \in CleanMethods :
        RequestEnds([op |-> "clean", method |-> method, status |-> 0],
                    clean_dataset(frames, data_store, method))

\* POST /api/data/transform
TransformDataset ==
    \E method \in TransformMethods :
        RequestEnds([op |-> "transform", method |-> method, status |-> 0],
                    transform_dataset(frames, data_store, method))

NextApi == UploadFile \/ CleanDataset \/ TransformDataset

SpecApi == InitApi /\ [][NextApi]_vars

(***************************************************************************)
(* Properties of search_jobs (SpecCache)                                   *)
(***************************************************************************)
\* the arguments of the call a SearchJobs step makes
CallArgs(call) == <<call.keywords, call.location>>

\* C1: while every call has use_cache enabled, a call whose (keywords,
\* location) are those of an earlier call, made less than 86400 seconds
\* after the timestamp of the entry that call stored, returns exactly the
\* job list that call stored, generates nothing, and leaves job_cache and
\* the cache file as they were.
C1_FreshEntryIsReturned ==
    [][(/\ calls' = calls + 1
        /\ ~bypassed'
        /\ CallArgs(last_call') \in DOMAIN stored_by
        /\ now - stored_by[CallArgs(last_call')].timestamp < CacheLifetime)
       => (/\ last_call'.outcome = "hit"
           /\ last_call'.returned = stored_by[CallArgs(last_call')].jobs
           /\ job_cache' = job_cache
           /\ cache_file' = cache_file)]_vars

\* A hit 86399 seconds after a call with the same arguments stored a
\* list that is not empty, asking for another number of results than the
\* list holds.
C1_Witness ==
    /\ pc = "called"
    /\ ~bypassed
    /\ last_call.outcome = "hit"
    /\ CallArgs(last_call) \in DOMAIN stored_by
    /\ last_call.at - stored_by[CallArgs(last_call)].timestamp = CacheLifetime - 1
    /\ last_call.returned = stored_by[CallArgs(last_call)].jobs
    /\ Len(last_call.returned) > 0
    /\ Len(last_call.returned) # py_min(last_call.max_results, 10)

\* C2: a call for a key whose entry is 86400 seconds old or older
\* regenerates the list, replaces that key's entry with the new list and
\* the timestamp now, and leaves every other key's entry as it was.
C2_StaleEntryIsReplaced ==
    [][(/\ calls' = calls + 1
        /\ search_key(last_call'.keywords, last_call'.location) \in DOMAIN job_cache
        /\ now - entry_timestamp(job_cache[
               search_key(last_call'.keywords, last_call'.location)])
           >= CacheLifetime)
       => LET key == search_key(last_call'.keywords, last_call'.location)
          IN  /\ last_call'.outcome = "stored"
              /\ last_call'.returned =
                     generate_example_jobs(last_call'.keywords,
                         last_call'.location, last_call'.max_results, now).jobs
              /\ job_cache'[key] = [timestamp |-> now, jobs |-> last_call'.returned]
              /\ DOMAIN job_cache' = DOMAIN job_cache
              /\ \A other \in DOMAIN job_cache \ {key} :
                     job_cache'[other] = job_cache[other]]_vars

\* What the code does keep of C2: the same, for the calls that
\* generate_example_jobs does not end with a ValueError.
StaleEntryIsReplacedUnlessRaised ==
    [][(/\ calls' = calls + 1
        /\ last_call'.outcome # "raised"
        /\ search_key(last_call'.keywords, last_call'.location) \in DOMAIN job_cache
        /\ now - entry_timestamp(job_cache[
               search_key(last_call'.keywords, last_call'.location)])
           >= CacheLifetime)
       => LET key == search_key(last_call'.keywords, last_call'.location)
          IN  /\ last_call'.outcome = "stored"
              /\ job_cache'[key] = [timestamp |-> now, jobs |-> last_call'.returned]
              /\ cache_file' = job_cache'
              /\ DOMAIN job_cache' = DOMAIN job_cache
              /\ \A other \in DOMAIN job_cache \ {key} :
                     job_cache'[other] = job_cache[other]]_vars

\* C11: every call of search_jobs that returns gives at most max_results
\* jobs, and never more than 10.
C11_AtMostMaxResults ==
    (pc = "called" /\ last_call.outcome # "raised") =>
        /\ Len(last_call.returned) <= last_call.max_results
        /\ Len(last_call.returned) <= 10

\* What the code keeps of C11: no call returns more than 10 jobs, and a
\* call that generates returns min(max_results, 10) of them.
ReturnsAtMostTen ==
    (pc = "called" /\ last_call.outcome # "raised") =>
        /\ Len(last_call.returned) <= 10
        /\ (last_call.outcome = "stored" =>
               Len(last_call.returned) = py_min(last_call.max_results, 10))

\* C21: over any sequence of search_jobs calls of one process, no step
\* removes a key from job_cache (a key is added or its entry overwritten,
\* every other entry stays as it was), and after every call the cache file
\* holds exactly job_cache.
C21_KeysStayAndFileFollows ==
    [][/\ DOMAIN job_cache \subseteq DOMAIN job_cache'
       /\ calls' = calls + 1 =>
              /\ cache_file' = job_cache'
              /\ \A key \in DOMAIN job_cache :
                     \/ job_cache'[key] = job_cache[key]
                     \/ key = search_key(last_call'.keywords, last_call'.location)]_vars

\* A call with use_cache=False that overwrote the entry of its key, a second
\* key being in the cache, after an earlier call of this process
C21_Witness ==
    /\ pc = "called"
    /\ calls = MaxCalls
    /\ last_call.outcome = "stored"
    /\ ~last_call.use_cache
    /\ CallArgs(last_call) \in DOMAIN stored_by
    /\ Cardinality(DOMAIN job_cache) = 2
    /\ cache_file = job_cache

\* the date k days before the day of time t, as '%Y-%m-%d' (the clock of
\* the model is in January 1970, so an earlier month is December 1969)
DaysBefore(t, k) ==
    IF day_of_month(t) - k >= 1 THEN strftime(day_of_month(t) - k)
    ELSE <<"1", "9", "6", "9", "-", "1", "2", "-">>
         \o str_int(31 + day_of_month(t) - k)

\* C25: a call that misses the cache does not raise: it returns
\* min(max_results, 10) jobs, job i dated today minus (i mod 14) days; and
\* a call that did raise would leave job_cache and the cache file as they
\* were.
C25_MissNeverRaises ==
    [][(calls' = calls + 1 /\ last_call'.outcome # "hit") =>
           /\ last_call'.outcome # "raised"
           /\ Len(last_call'.returned) = py_min(last_call'.max_results, 10)
           /\ \A i \in 1..Len(last_call'.returned) :
                  last_call'.returned[i].date_posted = DaysBefore(now, (i - 1) % 14)
           /\ (last_call'.outcome = "raised" =>
                  job_cache' = job_cache /\ cache_file' = cache_file)]_vars

\* What the code does: a miss that asks for more jobs than the day of the
\* month raises and changes nothing; another miss returns the dated jobs.
MissRaisesEarlyInTheMonth ==
    [][(calls' = calls + 1 /\ last_call'.outcome # "hit") =>
           IF py_min(last_call'.max_results, 10) > day_of_month(now)
           THEN /\ last_call'.outcome = "raised"
                /\ job_cache' = job_cache /\ cache_file' = cache_file
           ELSE /\ last_call'.outcome = "stored"
                /\ Len(last_call'.returned) = py_min(last_call'.max_results, 10)
                /\ \A i \in 1..Len(last_call'.returned) :
                       last_call'.returned[i].date_posted
                           = DaysBefore(now, (i - 1) % 14)]_vars

\* a text in lower case with its spaces turned into underscores
Normalized(text) == replace(lower(text), " ", "_")

\* C26: a hit returns a list that a call with the same keywords and the
\* same location (case and space/underscore apart) stored; two queries that
\* differ in keywords or location never share an entry.
C26_HitIsForTheSameQuery ==
    [][(calls' = calls + 1 /\ last_call'.outcome = "hit") =>
           \E query \in DOMAIN stored_by :
               /\ Normalized(query[1]) = Normalized(last_call'.keywords)
               /\ Normalized(query[2]) = Normalized(last_call'.location)
               /\ stored_by[query].jobs = last_call'.returned]_vars

\* What the code does: a hit returns the list stored under the search_key,
\* whichever keywords and location made that key.
HitIsForTheSameKey ==
    [][(calls' = calls + 1 /\ last_call'.outcome = "hit") =>
           \E query \in DOMAIN stored_by :
               /\ search_key(query[1], query[2])
                      = search_key(last_call'.keywords, last_call'.location)
               /\ stored_by[query].jobs = last_call'.returned]_vars

(***************************************************************************)
(* Properties of calculate_skill_match (SpecMatch)                         *)
(***************************************************************************)
\* Every token of the list is empty or whitespace (so is the empty list).
AllBlank(skill_list) ==
    \A i \in 1..Len(skill_list) :
        \A k \in 1..Len(skill_list[i]) : skill_list[i][k] \in Whitespace

HasDuplicate(skill_list) ==
    \E i, k \in 1..Len(skill_list) : i # k /\ skill_list[i] = skill_list[k]

\* C3: whatever the two skill lists (empty lists, blank tokens and duplicates
\* included), calculate_skill_match returns an integer from 0 to 100.
C3_MatchInRange == pc = "done" => match_result \in 0..100

\* A call with a blank token and a duplicate that scores strictly between.
C3_Witness ==
    /\ pc = "done"
    /\ \E i \in 1..Len(user_skills) : user_skills[i] = <<" ">>
    /\ HasDuplicate(job_skills)
    /\ match_result > 0 /\ match_result < 100

C5_EmptyGivesZero ==
    (pc = "done" /\ (AllBlank(job_skills) \/ AllBlank(user_skills)))
        => match_result = 0

\* A call whose job skills are all blank (not the empty list) against user
\* skills that are not.
C5_Witness ==
    /\ pc = "done"
    /\ job_skills # <<>> /\ AllBlank(job_skills)
    /\ ~AllBlank(user_skills)
    /\ match_result = 0

\* num / den rounded to the nearest integer, ties to the even one
RoundHalfEven(num, den) ==
    LET q == num \div den
        r == num % den
    IN  IF 2 * r < den THEN q
        ELSE IF 2 * r > den THEN q + 1
        ELSE IF q % 2 = 0 THEN q ELSE q + 1

\* The score C6 states: round(100 * matched / n) capped at 100, n the cleaned
\* tokens of the second argument and matched those of them that contain, or
\* are contained in, a cleaned token of the first.
ClaimedScore(first, second) ==
    LET cleaned_first == lower_skills(first)
        cleaned_second == lower_skills(second)
        matched == Cardinality({i \in 1..Len(cleaned_second) :
            \E j \in 1..Len(cleaned_first) :
                \/ contains(cleaned_first[j], cleaned_second[i])
                \/ contains(cleaned_second[i], cleaned_first[j])})
        rounded == RoundHalfEven(100 * matched, Len(cleaned_second))
    IN  IF rounded > 100 THEN 100 ELSE rounded

\* C6: for inputs that are non-empty after cleaning, the score equals
\* round(100 * matched / n) capped at 100.
C6_ScoreIsRoundedRatio ==
    (pc = "done" /\ ~AllBlank(job_skills) /\ ~AllBlank(user_skills))
        => match_result = ClaimedScore(job_skills, user_skills)

(***************************************************************************)
(* Properties of filter_jobs_by_skills (SpecFilter)                        *)
(***************************************************************************)
\* Two jobs have the same keys and values, skills_match left aside.
SameApartFromMatch(a, b) ==
    /\ DOMAIN a \ {"skills_match"} = DOMAIN b \ {"skills_match"}
    /\ \A k \in DOMAIN a \ {"skills_match"} : a[k] = b[k]

\* C7: each returned job is a distinct input job (same fields, skills_match
\* apart), and every returned job has skills_match >= min_match.
C7_FilterSubset ==
    pc = "done" =>
        \E f \in [1..Len(filtered_jobs) -> 1..Len(jobs)] :
            /\ \A i, k \in 1..Len(filtered_jobs) : i # k => f[i] # f[k]
            /\ \A i \in 1..Len(filtered_jobs) :
                /\ SameApartFromMatch(filtered_jobs[i], jobs[f[i]])
                /\ filtered_jobs[i]["skills_match"] >= min_match

\* A call that returns some of its jobs and drops others.
C7_Witness ==
    /\ pc = "done"
    /\ min_match > 0
    /\ Len(filtered_jobs) > 0
    /\ Len(filtered_jobs) < Len(jobs)

\* C8: the returned list is non-increasing in skills_match.
C8_SortOrder ==
    pc = "done" =>
        \A i \in 1..(Len(filtered_jobs) - 1) :
            filtered_jobs[i]["skills_match"] >= filtered_jobs[i + 1]["skills_match"]

\* A call that moved a later, better job in front of an earlier one.
C8_Witness ==
    /\ pc = "done"
    /\ \E i \in 1..(Len(filtered_jobs) - 1) :
        /\ filtered_jobs[i]["skills_match"] > filtered_jobs[i + 1]["skills_match"]
        /\ filtered_jobs[i]["id"] > filtered_jobs[i + 1]["id"]

\* C9: two returned jobs with the same skills_match keep the order they had
\* in the input list (a job's id is its place there).
C9_StableTies ==
    pc = "done" =>
        \A i, k \in 1..Len(filtered_jobs) :
            (i < k /\ filtered_jobs[i]["skills_match"] = filtered_jobs[k]["skills_match"])
                => filtered_jobs[i]["id"] < filtered_jobs[k]["id"]

\* A call that returns a tie behind a job it moved to the front.
C9_Witness ==
    /\ pc = "done"
    /\ Len(filtered_jobs) >= 3
    /\ filtered_jobs[1]["id"] > filtered_jobs[2]["id"]
    /\ filtered_jobs[2]["skills_match"] = filtered_jobs[3]["skills_match"]
    /\ filtered_jobs[2]["skills_match"] > 0

\* The score the call computes anew for an input job.
Recomputed(job) ==
    calculate_skill_match(extract_job_skills(job), split_user_skills(skills))

\* C10: the jobs returned are exactly the input jobs whose recomputed score
\* is >= min_match (one scoring exactly min_match is kept), and with
\* min_match = 0 every input job is returned.
C10_KeepsExactly ==
    pc = "done" =>
        LET kept == {i \in 1..Len(jobs) : Recomputed(jobs[i]) >= min_match}
        IN  /\ {filtered_jobs[i]["id"] : i \in 1..Len(filtered_jobs)} = kept
            /\ Len(filtered_jobs) = Cardinality(kept)
            /\ (min_match = 0 => Len(filtered_jobs) = Len(jobs))

\* A call that keeps a job scoring exactly min_match and drops another.
C10_Witness ==
    /\ pc = "done"
    /\ min_match > 0
    /\ \E i \in 1..Len(filtered_jobs) : filtered_jobs[i]["skills_match"] = min_match
    /\ Len(filtered_jobs) < Len(jobs)

\* the skill list of a job as C24 has it: the requirements value itself
\* when it is a list of skill strs, what is extracted from the text otherwise
SkillListOrExtracted(job) ==
    IF "requirements" \in DOMAIN job /\ "list" \in DOMAIN job["requirements"]
    THEN job["requirements"]["list"]
    ELSE extract_job_skills(job)

\* C24: the skills_match of every returned job is calculate_skill_match
\* of the job's skill list (extracted from a requirements text, or the
\* requirements list itself) and the cleaned reference skills.
C24_ScoreOfExtractedOrGivenSkills ==
    pc = "done" =>
        \A i \in 1..Len(filtered_jobs) :
            filtered_jobs[i]["skills_match"] =
                calculate_skill_match(SkillListOrExtracted(filtered_jobs[i]),
                                      split_user_skills(skills))

\* What the code does: a requirements value that is not a str gives no
\* skills, and the previous skills_match plays no part.
ScoreOfExtractedSkills ==
    pc = "done" =>
        \A i \in 1..Len(filtered_jobs) :
            filtered_jobs[i]["skills_match"] = Recomputed(filtered_jobs[i])

(***************************************************************************)
(* Properties of the saved-job store (SpecStore)                           *)
(***************************************************************************)
\* the entries of a list of saved jobs that carry this saved_job_id
EntriesWithId(listed, saved_job_id) ==
    {i \in 1..Len(listed) : listed[i].saved_job_id = saved_job_id}

\* C12: once save_job_for_user(user, job, pct) has returned a saved_job_id,
\* every later get_saved_jobs(user) holds exactly one entry with that id,
\* carrying that job and pct, until delete_saved_job(user, id) returns True;
\* after that no get_saved_jobs(user) holds it.
C12_SaveListRoundTrip ==
    (pc = "called" /\ store_call.op = "get_saved_jobs") =>
        /\ \A s \in live_saves :
               s.user_id = store_call.user_id =>
                   /\ Cardinality(EntriesWithId(store_call.result.value,
                                                s.saved_job_id)) = 1
                   /\ \A i \in EntriesWithId(store_call.result.value, s.saved_job_id) :
                          /\ store_call.result.value[i].job = s.job
                          /\ store_call.result.value[i].match_percentage = s.pct
        /\ \A d \in deleted_saves :
               d[1] = store_call.user_id =>
                   EntriesWithId(store_call.result.value, d[2]) = {}


\* a sequence without its i-th element
RemoveAt(listed, i) == SubSeq(listed, 1, i - 1) \o SubSeq(listed, i + 1, Len(listed))

\* the saved jobs get_saved_jobs(user_id) lists in the store a call reaches
ListedBefore(reached, user_id) ==
    get_user_by_id(reached, db_users, db_saved_jobs, user_files, user_id).saved_jobs

\* C13: delete_saved_job(user, id) returns True exactly when the user had a
\* saved job with that id just before the call (get_saved_jobs would have
\* listed it: from the database when it answers, from the user's file
\* otherwise). On
\* True exactly that entry is removed and every other saved job, of this and
\* of every other user, is unchanged. On False nothing is changed. The call
\* always returns a boolean: no exception reaches the caller.
C13_DeleteSavedJob ==
    [][(store_calls' = store_calls + 1 /\ store_call'.op = "delete_saved_job") =>
        /\ store_call'.result.kind = "bool"
        /\ store_call'.result.value =
               (EntriesWithId(ListedBefore(store_call'.reached, store_call'.user_id),
                              store_call'.saved_job_id) # {})
        /\ db_users' = db_users
        /\ (store_call'.result.value /\ store_call'.reached) =>
               /\ user_files' = user_files
               /\ \E i \in 1..Len(db_saved_jobs) :
                      /\ db_saved_jobs[i].id = store_call'.saved_job_id
                      /\ db_saved_jobs[i].user_id = store_call'.user_id
                      /\ db_saved_jobs' = RemoveAt(db_saved_jobs, i)
        /\ (store_call'.result.value /\ ~store_call'.reached) =>
               /\ db_saved_jobs' = db_saved_jobs
               /\ DOMAIN user_files' = DOMAIN user_files
               /\ \A u \in DOMAIN user_files :
                      u # store_call'.user_id => user_files'[u] = user_files[u]
               /\ user_files'[store_call'.user_id].email
                      = user_files[store_call'.user_id].email
               /\ \E i \in 1..Len(user_files[store_call'.user_id].saved_jobs) :
                      /\ user_files[store_call'.user_id].saved_jobs[i].saved_job_id
                             = store_call'.saved_job_id
                      /\ user_files'[store_call'.user_id].saved_jobs
                             = RemoveAt(user_files[store_call'.user_id].saved_jobs, i)
        /\ ~store_call'.result.value =>
               /\ db_saved_jobs' = db_saved_jobs
               /\ user_files' = user_files
      ]_vars


\* the entries of a list of saved jobs that hold this job record
EntriesOfJob(listed, job) == {i \in 1..Len(listed) : listed[i].job = job}

\* the saved jobs get_saved_jobs(user_id) lists after the step, in the store
\* the call reached
ListedAfter(reached, user_id) ==
    get_user_by_id(reached, db_users', db_saved_jobs', user_files', user_id).saved_jobs

\* C20: when save_job_for_user returns an id for a job record the user has
\* saved already, the file-backed store holds one entry more for the job,
\* under an id no entry had, and the relational store still holds exactly
\* one entry for the job.
C20_SameJobSavedTwice ==
    [][(/\ store_calls' = store_calls + 1
        /\ store_call'.op = "save_job_for_user"
        /\ store_call'.result.kind = "id"
        /\ Cardinality(EntriesOfJob(ListedBefore(store_call'.reached,
               store_call'.user_id), store_call'.saved.job)) = 1) =>
           IF store_call'.reached
           THEN Cardinality(EntriesOfJob(ListedAfter(TRUE, store_call'.user_id),
                                         store_call'.saved.job)) = 1
           ELSE /\ Cardinality(EntriesOfJob(ListedAfter(FALSE, store_call'.user_id),
                                            store_call'.saved.job)) = 2
                /\ EntriesWithId(ListedBefore(FALSE, store_call'.user_id),
                                 store_call'.result.value) = {}
                /\ Cardinality(EntriesWithId(ListedAfter(FALSE, store_call'.user_id),
                                             store_call'.result.value)) = 1
      ]_vars

\* the users stored, in the users table or in a file of data/users
StoredUsers == DOMAIN db_users \cup DOMAIN user_files

StoredEmail(user_id) ==
    IF user_id \in DOMAIN db_users THEN db_users[user_id].email
    ELSE user_files[user_id].email

\* C28: after any sequence of create_user calls, the database answering
\* or raising, no two stored users have the same email.
C28_OneUserPerEmail ==
    \A a, b \in StoredUsers : a # b => StoredEmail(a) # StoredEmail(b)

\* What the code keeps: no two rows of the users table have the same
\* email; the file-based code never looks for the email.
OneRowPerEmail ==
    \A a, b \in DOMAIN db_users : a # b => db_users[a].email # db_users[b].email

(***************************************************************************)
(* Properties of the shared cache file (SpecProcs)                         *)
(***************************************************************************)
\* C14: load_job_cache never lets an exception out (the import succeeds).
\* When the file is missing the cache becomes an empty mapping and the file
\* is created; when the file exists but may not be read or is not valid
\* JSON the cache becomes an empty mapping as well.
C14_LoadNeverFails ==
    [][\A p \in Procs :
          (proc_pc[p] = "import" /\ proc_pc'[p] # "import") =>
              /\ proc_pc'[p] # "import_failed"
              /\ ~shared_file.exists =>
                     (proc_cache'[p] = <<>> /\ shared_file'.exists)
              /\ (shared_file.exists /\ ~(shared_file.readable /\ shared_file.valid)) =>
                     proc_cache'[p] = <<>>
      ]_vars

\* C16: when no process is inside save_job_cache, the file is the JSON of
\* the job_cache of the process that wrote last.
C16_FileIsLastWritersCache ==
    (last_writer # 0 /\ \A p \in Procs : proc_pc[p] # "opened") =>
        /\ shared_file.valid
        /\ shared_file.document = proc_cache[last_writer]

(***************************************************************************)
(* Properties of the search pipeline (SpecPipeline)                        *)
(***************************************************************************)
\* a skill text that is empty or holds only blanks and commas
BlankSkillText(text) == \A i \in 1..Len(text) : text[i] \in {" ", ","}

\* C15: for a skill text that is empty or holds only blank and comma
\* tokens, and for every min_match, 0 included, the pipeline ends without
\* an exception and with an empty job list.
C15_BlankSkillTextGivesNoResults ==
    (pc = "done" /\ BlankSkillText(skills)) =>
        /\ last_call.outcome # "raised"
        /\ filtered_jobs = <<>>

\* C22: every job stored in a cache entry, and every job search_jobs
\* returned, carries skills_match = 100, whatever the keywords were.
C22_StoredJobsMatchFully ==
    pc = "done" =>
        /\ \A key \in DOMAIN job_cache :
               \A i \in 1..Len(entry_jobs(job_cache[key])) :
                   entry_jobs(job_cache[key])[i].skills_match = 100
        /\ \A i \in 1..Len(jobs) : jobs[i].skills_match = 100

\* the first token of a comma-separated text that is not blank, stripped
\* (the empty text when every token is blank)
RECURSIVE FirstNonEmpty(_)
FirstNonEmpty(tokens) ==
    IF tokens = <<>> THEN <<>>
    ELSE IF non_blank(tokens[1]) THEN strip(tokens[1])
    ELSE FirstNonEmpty(Tail(tokens))

\* the title, the first requirement line and the url of job i (from 0)
\* when the primary skill is `primary`
BuiltOn(job, primary, i) ==
    /\ job.title = job_titles(primary)[(i % 10) + 1]
    /\ Len(job.requirements.str) > Len(ProficiencyLine \o primary)
    /\ SubSeq(job.requirements.str, 1, Len(ProficiencyLine \o primary) + 1)
           = ProficiencyLine \o primary \o <<"\n">>
    /\ job.url = UrlText \o str_int(i) \o <<"_">>
                     \o replace(lower(primary), " ", "_")

\* C23: the jobs generate_example_jobs builds have their title, their
\* first requirement line and their url built on the first non-empty token
\* of the comma-separated keywords.
C23_PrimarySkillIsFirstNonEmptyToken ==
    (pc = "done" /\ last_call.outcome = "stored") =>
        \A i \in 1..Len(jobs) :
            BuiltOn(jobs[i], FirstNonEmpty(split(skills, ",")), i - 1)

\* What the code does: the primary skill is the first token, blank or not.
PrimarySkillIsFirstToken ==
    (pc = "done" /\ last_call.outcome = "stored") =>
        /\ Len(jobs) = 10
        /\ \A i \in 1..Len(jobs) :
               BuiltOn(jobs[i], strip(split(skills, ",")[1]), i - 1)

(***************************************************************************)
(* Properties of filter_and_score (SpecFilterAndScore)                     *)
(***************************************************************************)
\* the ids of the jobs returned
ReturnedIds == {cat_result[i]["id"] : i \in 1..Len(cat_result)}

\* the input jobs whose field holds one of the texts, in lower case when
\* folded
JobsHolding(key, texts, folded) ==
    {i \in 1..Len(cat_jobs) :
        /\ key \in DOMAIN cat_jobs[i]
        /\ \E text \in texts :
               IF folded THEN contains(lower(text), lower(cat_jobs[i][key]))
               ELSE contains(text, cat_jobs[i][key])}

\* no filter but the one named is supplied (a wildcard apart)
OnlyFilter(key) ==
    \A k \in DOMAIN cat_filters :
        \/ k = key
        \/ (k = "industry" /\ cat_filters[k] = AllIndustries)
        \/ (k = "experience" /\ cat_filters[k] = AllLevels)

\* exactly these input jobs are returned, each once
ReturnsExactly(ids) ==
    ReturnedIds = ids /\ Len(cat_result) = Cardinality(ids)

\* C17: with a location filter, the result holds exactly the input jobs
\* whose location field contains the filter text as a case-insensitive
\* substring; without one, every job passes.
C17_LocationFilter ==
    (pc = "done" /\ OnlyFilter("location")) =>
        IF "location" \in DOMAIN cat_filters
        THEN ReturnsExactly(JobsHolding("location", {cat_filters["location"]}, TRUE))
        ELSE ReturnsExactly(1..Len(cat_jobs))

\* location "Remote" against ten jobs of which three hold "remote": exactly
\* three are returned
C17_Witness ==
    /\ pc = "done"
    /\ DOMAIN cat_filters = {"location"}
    /\ cat_filters["location"] = <<"R", "e", "m", "o", "t", "e">>
    /\ Len(cat_jobs) = 10
    /\ Len(cat_result) = 3

\* C18: "Senior Level" passes a job exactly when its experience string
\* contains "5-", "6-" or "7-"; "Entry Level" requires "0-" or "1-", "Mid
\* Level" "3-" or "4-"; "All Levels" passes every job.
C18_ExperienceFilter ==
    (pc = "done" /\ OnlyFilter("experience") /\ "experience" \in DOMAIN cat_filters) =>
        /\ cat_filters["experience"] = SeniorLevel =>
               ReturnsExactly(JobsHolding("experience",
                   {<<"5", "-">>, <<"6", "-">>, <<"7", "-">>}, FALSE))
        /\ cat_filters["experience"] = EntryLevel =>
               ReturnsExactly(JobsHolding("experience",
                   {<<"0", "-">>, <<"1", "-">>}, FALSE))
        /\ cat_filters["experience"] = MidLevel =>
               ReturnsExactly(JobsHolding("experience",
                   {<<"3", "-">>, <<"4", "-">>}, FALSE))
        /\ cat_filters["experience"] = AllLevels =>
               ReturnsExactly(1..Len(cat_jobs))

\* "Senior Level" against "5-7 years", "1-3 years" and "entry": only the
\* first is returned
C18_Witness ==
    /\ pc = "done"
    /\ DOMAIN cat_filters = {"experience"}
    /\ cat_filters["experience"] = SeniorLevel
    /\ Len(cat_jobs) = 3
    /\ cat_jobs[2]["experience"] = <<"1", "-", "3", " ", "y", "e", "a", "r", "s">>
    /\ cat_jobs[3]["experience"] = <<"e", "n", "t", "r", "y">>
    /\ ReturnedIds = {1}

(***************************************************************************)
(* Properties of the static catalog (SpecCatalog)                          *)
(***************************************************************************)
\* the ids of the listings returned
ReturnedListings == {cat_result[i].listing["id"] : i \in 1..Len(cat_result)}

\* the scores of the listings of the catalog, with the jitters drawn
ExpectedScores ==
    scored_listings(cat_jobs, cleaned_skills(cat_reference), cat_jitters)

\* every returned job carries its listing's score, which lies in [60, 99]
ScoresInRange(expected) ==
    \A i \in 1..Len(cat_result) :
        /\ cat_result[i].score.num >= 60 * cat_result[i].score.den
        /\ cat_result[i].score.num <= 99 * cat_result[i].score.den
        /\ cat_result[i].score = expected[cat_result[i].listing["id"]].score

\* the listings left out are those that score below the threshold
LeftOutBelow(expected, threshold) ==
    \A i \in 1..Len(cat_jobs) :
        i \notin ReturnedListings <=>
            expected[i].score.num < threshold * expected[i].score.den

\* C19: the score of every returned job lies in [60, 99], whatever the
\* listing, the reference skills and the jitter in [-5, +5]; and with
\* min_match = 70 a job is left out only if its jittered, clamped score is
\* below 70 (or max_results jobs with scores at least as high are returned).
C19_ScoreRangeAndThreshold ==
    pc = "done" =>
        /\ ScoresInRange(ExpectedScores)
        /\ ("min_match" \in DOMAIN cat_filters /\ Len(cat_result) < cat_max) =>
               LeftOutBelow(ExpectedScores, 70)

\* Two listings with 2 of 3 skills matched (base score 66.7): the one with
\* jitter +4 is returned with 70.7, the one with jitter +3 (69.7) is not.
C19_Witness ==
    /\ pc = "done"
    /\ "min_match" \in DOMAIN cat_filters
    /\ Len(cat_jobs) = 2
    /\ Len(cat_result) = 1
    /\ cat_result[1].score = [num |-> 212, den |-> 3]
    /\ \E i \in 1..2 : i \notin ReturnedListings /\ cat_jitters[i] = 3
                       /\ Len(cat_jobs[i]["skills_required"]) = 3
(***************************************************************************)
(* Properties of filter_jobs_by_skills on objects (SpecObjects)            *)
(***************************************************************************)
\* the jobs of a cache entry, as the objects hold them
EntryItems(objs, cache_entry) == items_of(objs, entry_jobs(cache_entry))

\* C27: a call of filter_jobs_by_skills leaves the list it is given with
\* the same items in the same order and every job of it with all its
\* fields, the previous skills_match included, so every cache entry holds
\* after the call the jobs it held before.
C27_FilterLeavesInputAlone ==
    [][pc' = "filtered" =>
           /\ objects'[last_filter'.jobs] = objects[last_filter'.jobs]
           /\ items_of(objects', last_filter'.jobs)
                  = items_of(objects, last_filter'.jobs)
           /\ cache_refs' = cache_refs
           /\ \A key \in DOMAIN cache_refs :
                  EntryItems(objects', cache_refs[key])
                      = EntryItems(objects, cache_refs[key])]_vars

\* What the call returns is what filter_jobs_by_skills computes from the
\* dicts of the list.
FilterOnObjectsAgrees ==
    [][pc' = "filtered" =>
           items_of(objects', last_filter'.returned)
               = filter_jobs_by_skills(items_of(objects, last_filter'.jobs),
                     last_filter'.skills, last_filter'.min_match)]_vars

\* A third call, which filtered the list that a cache entry holds and
\* returned a job with another skills_match than the entry's job has
C27_Witness ==
    /\ pc = "filtered"
    /\ object_calls = MaxObjectCalls
    /\ \E key \in DOMAIN cache_refs :
        /\ entry_jobs(cache_refs[key]) = last_filter.jobs
        /\ Len(objects[last_filter.jobs].list) = MaxObjectJobs
    /\ Len(objects[last_filter.returned].list) > 0
    /\ \E i \in 1..Len(objects[last_filter.returned].list) :
           items_of(objects, last_filter.returned)[i].skills_match < 100
    /\ \A i \in 1..Len(objects[last_filter.jobs].list) :
           items_of(objects, last_filter.jobs)[i].skills_match = 100

(***************************************************************************)
(* Properties of the data store of api.py (SpecApi)                        *)
(***************************************************************************)
\* the places of the requests of one kind that were answered with 200
Answered(op) ==
    {i \in 1..Len(requests) : requests[i].op = op /\ requests[i].status = 200}

\* the place of the last such request, 0 when there is none
LastAnswered(op) == IF Answered(op) = {} THEN 0 ELSE SetMax(Answered(op))

\* what the store holds under a key: the frame, or no frame for None
NoFrame == [none |-> TRUE]

Held(ref) == IF ref = None THEN NoFrame ELSE frames[ref]

\* clean_data and transform_data as functions of a frame
Cleaned(frame, method) ==
    LET cleaned == clean_data(<<frame>>, 1, method)
    IN  cleaned.objects[cleaned.ref]

TransformedBy(frame, method) ==
    LET transformed == transform_data(<<frame>>, 1, method)
    IN  transformed.objects[transformed.ref]

\* the frame of the last upload that succeeded
Uploaded ==
    IF LastAnswered("upload") = 0 THEN NoFrame
    ELSE requests[LastAnswered("upload")].file.content.frame

\* the place of the last clean that came after the last upload, 0 when
\* there is none
LastClean ==
    IF LastAnswered("clean") > LastAnswered("upload")
    THEN LastAnswered("clean") ELSE 0

\* the transforms from request i on applied to a frame, in their order
RECURSIVE Transformed(_, _)
Transformed(frame, i) ==
    IF i > Len(requests) THEN frame
    ELSE IF requests[i].op = "transform" /\ requests[i].status = 200
    THEN Transformed(TransformedBy(frame, requests[i].method), i + 1)
    ELSE Transformed(frame, i + 1)

\* the uploaded data, the last clean applied, then the transforms that
\* came after that clean (after the upload, when there was no clean)
CleanedThenTransformed ==
    IF Uploaded = NoFrame THEN NoFrame
    ELSE IF LastClean = 0 THEN Transformed(Uploaded, LastAnswered("upload") + 1)
    ELSE Transformed(Cleaned(Uploaded, requests[LastClean].method),
                     LastClean + 1)

\* C29: after any sequence of upload, clean and transform requests, data
\* is what the last successful upload gave (clean and transform never
\* change it), filtered_data is that data with the most recent clean
\* applied and then only the transforms that came after this clean, and
\* data is None exactly when filtered_data is.
C29_DataStoreAfterRequests ==
    /\ Held(data_store.data) = Uploaded
    /\ Held(data_store.filtered_data) = CleanedThenTransformed
    /\ (data_store.data = None) <=> (data_store.filtered_data = None)

\* An upload, a transform, and a clean that discarded that transform
C29_Witness ==
    /\ api_calls = MaxApiCalls
    /\ requests[1].op = "upload" /\ requests[1].status = 200
    /\ requests[2].op = "transform" /\ requests[2].status = 200
    /\ requests[3].op = "clean" /\ requests[3].status = 200
    /\ Held(data_store.filtered_data) # Held(data_store.data)
    /\ Held(data_store.filtered_data)
           = Cleaned(Held(data_store.data), requests[3].method)
    /\ Held(data_store.filtered_data)
           # Cleaned(TransformedBy(Held(data_store.data), requests[2].method),
                     requests[3].method)

\* C30: an upload whose extension is not csv, xlsx, xls or json is answered
\* with status 400 "Unsupported file format", and an upload that fails
\* leaves data and filtered_data as they were.
C30_UnsupportedFormatIs400 ==
    [][(api_calls' = api_calls + 1 /\ requests'[api_calls'].op = "upload") =>
           /\ file_extension(requests'[api_calls'].file.filename)
                  \notin SupportedExtensions
              => /\ last_response'.status = 400
                 /\ last_response'.detail = "Unsupported file format"
           /\ last_response'.status # 200 =>
                  data_store' = data_store /\ frames' = frames]_vars

\* What the code does: every failed upload, the one of an unsupported
\* extension included, is answered with status 500 and leaves the store
\* as it was.
FailedUploadIs500 ==
    [][(api_calls' = api_calls + 1 /\ requests'[api_calls'].op = "upload") =>
           /\ (\/ file_extension(requests'[api_calls'].file.filename)
                      \notin SupportedExtensions
               \/ "frame" \notin DOMAIN requests'[api_calls'].file.content)
              <=> last_response'.status = 500
           /\ last_response'.status \in {200, 500}
           /\ last_response'.status # 200 =>
                  data_store' = data_store /\ frames' = frames]_vars

====
